---- MODULE Spec2Model ----
(***************************************************************************)
(* A model of the script front-end compiler of                             *)
(* torch/csrc/jit/script/compiler.cpp: the Environment scope stack, the    *)
(* statement emitters that build If and Loop nodes, schema matching for    *)
(* builtin calls, and tuple indexing / slicing.                            *)
(*                                                                         *)
(* The function body being compiled is the input.  Every action compiles   *)
(* the next statement of the body (or the opening / closing part of a      *)
(* compound statement), chosen from a small set, and appends it to body.   *)
(* The position inside the handlers of the enclosing compound statements   *)
(* is the control stack ctl.                                               *)
(***************************************************************************)
EXTENDS Integers, Sequences, FiniteSets, TLC

\* ------------------------------------------------------------------ bounds
\* statement parts (a simple statement, or the opening, else or closing part
\* of a compound statement) of a body, per family of bodies
MaxIfStmts == 7
MaxLoopStmts == 5
MaxIsStmts == 4
MaxCallStmts == 1
MaxTupleStmts == 1
MaxDetStmts == 5
MaxForStmts == 3
MaxBoolStmts == 3
MaxApplyStmts == 1
MaxEnvStmts == 3
MaxUnpackStmts == 1
MaxForkStmts == 1
MaxCondStmts == 3
\* nesting depth of compound statements
MaxDepth == 2
\* largest magnitude of an integer literal used as a tuple index
MaxIdx == 4
\* std::numeric_limits<int64_t>::max(), as the largest integer of the model
INT64_MAX == 2147483647

\* ------------------------------------------------------------- vocabulary
\* identifiers: a and b are assigned and read, t is a parameter, print is a
\* name of the fixed table of getSugaredVar that a body may bind as well
Names == {"a", "b", "print", "t"}
\* alphabetical order of identifiers (std::string operator>)
NameRank(n) == CASE n = "a" -> 1 [] n = "b" -> 2 [] n = "print" -> 3 [] OTHER -> 4
\* iteration orders an unordered_map over Names can produce
NameOrders == {o \in [1..Cardinality(Names) -> Names] : \A i, j \in 1..Cardinality(Names) : i # j => o[i] # o[j]}

\* the iteration orders as far as they order the names ids that a body binds
HashOrders(ids) == {o \in NameOrders : \A i \in 1..(Cardinality(Names) - 1) : o[i] \notin ids => (o[i + 1] \notin ids /\ NameRank(o[i]) < NameRank(o[i + 1]))}

\* tuple types and their elements()
TupleTypes == {"()", "(int)", "(int, float)", "(int, float, int)"}
AllTupleTypes == TupleTypes \cup {"(float)", "(float, int)"}
elements(t) == CASE t = "()" -> <<>> [] t = "(int)" -> <<"int">> [] t = "(float)" -> <<"float">> [] t = "(int, float)" -> <<"int", "float">> [] t = "(float, int)" -> <<"float", "int">> [] OTHER -> <<"int", "float", "int">>
\* TupleType::create
TupleOf(elems) == CHOOSE t \in AllTupleTypes : elements(t) = elems
\* a Const tree: isFloatingPoint() and the value (a floating value in tenths)
IntLit(k) == [fp |-> FALSE, val |-> k]
FpLit(k) == [fp |-> TRUE, val |-> k]
\* the literals a body assigns: 0 and 1.5
Lits == {IntLit(0), FpLit(15)}
IntKeys == 0..MaxIdx \cup {INT64_MAX}
FpKeys == {15}

\* c10::optional
None == <<>>
Some(x) == <<x>>

\* ------------------------------------------------------------ sugared values
NoSV == [k |-> "null", v |-> 0]
SimpleValue(v) == [k |-> "simple", v |-> v]
\* asSimple: the Value of a SimpleValue, 0 (nullptr) otherwise
asSimple(sv) == IF sv.k = "simple" THEN sv.v ELSE 0

NoMsg == <<>>

\* Environment(method, resolver, b, next): next is the frame below in frames
Environment(b) == [value_table |-> [n \in Names |-> NoSV], captured_inputs |-> <<>>, error_messages |-> [n \in Names |-> NoMsg], b |-> b]

NewBlock(owner) == [inputs |-> <<>>, outputs |-> <<>>, nodes |-> <<>>, owner |-> owner]
NewNode(kind, ins, outs, attr) == [kind |-> kind, inputs |-> ins, outputs |-> outs, blocks |-> <<>>, attr |-> attr]

\* the state of one compilation right after to_ir pushed the root frame
EmptyCompile == [frames |-> <<Environment(1)>>, blocks |-> <<NewBlock(0)>>, nodes |-> <<>>, vtype |-> <<>>, integral_constants |-> [k \in IntKeys |-> 0], fp_constants |-> [k \in FpKeys |-> 0], status |-> "ok", errmsg |-> NoMsg, ctl |-> <<>>]

\* ------------------------------------------------------------ sequences
InsertAt(s, i, e) == SubSeq(s, 1, i - 1) \o <<e>> \o SubSeq(s, i, Len(s))
RemoveAt(s, i) == SubSeq(s, 1, i - 1) \o SubSeq(s, i + 1, Len(s))
Range(s) == {s[i] : i \in 1..Len(s)}
Last(s) == s[Len(s)]
IndexOf(s, e) == CHOOSE i \in 1..Len(s) : s[i] = e
\* F applied to the value v, computed once
Only(S) == CHOOSE x \in S : TRUE
Let(v, F(_)) == Only({F(x) : x \in {v}})

\* ------------------------------------------------------------ types
\* Type::isSubtypeOf on the types of the model
isSubtypeOf(t1, t2) == t1 = t2 \/ (t2 = "number" /\ t1 \in {"int", "float"}) \/ (t2 = "int?" /\ t1 \in {"int", "None"})
\* unshapedType only erases tensor shapes; the model has no tensor shapes
unshapedType(t) == t
\* unifyTypes: identical types unify, nothing is widened; "" is nullopt
unifyTypes(t1, t2) == IF t1 = t2 THEN t1 ELSE ""

\* ------------------------------------------------------------ errors
\* throw ErrorReport: the compilation is abandoned with the first error
Throw(c, kind, msg) == IF c.status = "ok" THEN [c EXCEPT !.status = kind, !.errmsg = msg] ELSE c

\* ------------------------------------------------------------ graph
\* graph.insertNode(create(kind, ins, outs)) at the end of block b
InsertNode(c, b, kind, ins, outTypes, attr) ==
  LET base == Len(c.vtype)
      outs == [i \in 1..Len(outTypes) |-> base + i]
      n == Len(c.nodes) + 1
  IN [c |-> [c EXCEPT !.vtype = @ \o outTypes, !.nodes = Append(@, NewNode(kind, ins, outs, attr)), !.blocks[b].nodes = Append(@, n)], n |-> n, outs |-> outs]

\* WithInsertPoint guard(before): the node goes in front of node before
InsertNodeBefore(c, b, before, kind, ins, outTypes, attr) ==
  LET old == c.blocks[b].nodes
  IN Let(InsertNode(c, b, kind, ins, outTypes, attr), LAMBDA r : [r EXCEPT !.c.blocks[b].nodes = InsertAt(old, IndexOf(old, before), r.n)])

\* WithInsertPoint guard(graph.block()->nodes().front())
InsertNodeFront(c, kind, ins, outTypes, attr) ==
  Let(InsertNode(c, 1, kind, ins, outTypes, attr), LAMBDA r : [r EXCEPT !.c.blocks[1].nodes = <<r.n>> \o c.blocks[1].nodes])

\* n->addBlock()
addBlock(c, n) ==
  LET b == Len(c.blocks) + 1
  IN [c |-> [c EXCEPT !.blocks = Append(@, NewBlock(n)), !.nodes[n].blocks = Append(@, b)], b |-> b]

\* Value::replaceAllUsesWith
replaceAllUsesWith(c, old, new) ==
  LET sub(s) == [i \in 1..Len(s) |-> IF s[i] = old THEN new ELSE s[i]]
  IN [c EXCEPT !.nodes = [i \in 1..Len(c.nodes) |-> [c.nodes[i] EXCEPT !.inputs = sub(@)]], !.blocks = [i \in 1..Len(c.blocks) |-> [c.blocks[i] EXCEPT !.outputs = sub(@)]]]

\* the node a value is an output of, 0 for a block input
producer(c, v) == IF \E i \in 1..Len(c.nodes) : v \in Range(c.nodes[i].outputs) THEN CHOOSE i \in 1..Len(c.nodes) : v \in Range(c.nodes[i].outputs) ELSE 0

\* toIValue: the constant a value is, nullopt for any other value
toIValue(c, v) ==
  LET n == producer(c, v)
  IN IF n # 0 /\ c.nodes[n].kind = "prim::Constant" THEN Some([type |-> c.vtype[v], val |-> c.nodes[n].attr[1]]) ELSE None
\* ------------------------------------------------------------ Environment
top(c) == Len(c.frames)
pushFrame(c, b) == [c EXCEPT !.frames = Append(@, Environment(b))]
popFrame(c) == [c EXCEPT !.frames = SubSeq(@, 1, Len(@) - 1)]

\* a variant of setVariableTypeError that keeps no message
setVariableTypeErrorDropped(c, name, msg) == c

setVariableTypeError(c, name, msg) == [c EXCEPT !.frames[1].error_messages[name] = msg]
findVariableTypeError(c, name) == c.frames[1].error_messages[name]

findInThisFrame(c, i, name) == c.frames[i].value_table[name]

RECURSIVE findInAnyFrame(_, _, _)
findInAnyFrame(c, i, name) ==
  IF i = 0 THEN NoSV
  ELSE IF findInThisFrame(c, i, name) # NoSV THEN findInThisFrame(c, i, name)
  ELSE findInAnyFrame(c, i - 1, name)

findInParentFrame(c, i, name) == findInAnyFrame(c, i - 1, name)

getBlockOwningKind(c, i) ==
  LET o == c.blocks[c.frames[i].b].owner
  IN IF o = 0 THEN "" ELSE c.nodes[o].kind

\* the while loop of createCapturedInput: the first position whose name is not below `name`
RECURSIVE insertPosFrom(_, _, _)
insertPosFrom(captured, name, insert_pos) ==
  IF insert_pos < Len(captured) /\ NameRank(name) > NameRank(captured[insert_pos + 1])
  THEN insertPosFrom(captured, name, insert_pos + 1)
  ELSE insert_pos

\* a variant of the search that always ends behind the last captured name
insertPosLast(captured, name) == Len(captured)

insertPos(captured, name) == insertPosFrom(captured, name, 0)

createCapturedInput(c, i, orig, name) ==
  LET insert_pos == insertPos(c.frames[i].captured_inputs, name)
      new_input == Len(c.vtype) + 1
      b == c.frames[i].b
  IN [c |-> [c EXCEPT !.vtype = Append(@, c.vtype[orig]), !.frames[i].captured_inputs = InsertAt(@, insert_pos + 1, name), !.blocks[b].inputs = InsertAt(@, 1 + insert_pos + 1, new_input), !.frames[i].value_table[name] = SimpleValue(new_input)], r |-> SimpleValue(new_input)]

\* a variant of createCapturedInputIfNeeded that takes the value from the
\* nearest frame that binds the name, without capturing it in the frames between
createCapturedInputInnermost(c, i, ident) ==
  IF i = 0 THEN [c |-> c, r |-> NoSV]
  ELSE IF findInThisFrame(c, i, ident) # NoSV THEN [c |-> c, r |-> findInThisFrame(c, i, ident)]
  ELSE Let([c |-> c, r |-> findInAnyFrame(c, i - 1, ident)], LAMBDA from_parent :
         IF from_parent.r # NoSV /\ getBlockOwningKind(from_parent.c, i) = "prim::Loop" /\ asSimple(from_parent.r) # 0
         THEN createCapturedInput(from_parent.c, i, asSimple(from_parent.r), ident)
         ELSE from_parent)

RECURSIVE createCapturedInputIfNeeded(_, _, _)
createCapturedInputIfNeeded(c, i, ident) ==
  IF i = 0 THEN [c |-> c, r |-> NoSV]
  ELSE IF findInThisFrame(c, i, ident) # NoSV THEN [c |-> c, r |-> findInThisFrame(c, i, ident)]
  ELSE Let(createCapturedInputIfNeeded(c, i - 1, ident), LAMBDA from_parent :
         IF from_parent.r # NoSV /\ getBlockOwningKind(from_parent.c, i) = "prim::Loop" /\ asSimple(from_parent.r) # 0
         THEN createCapturedInput(from_parent.c, i, asSimple(from_parent.r), ident)
         ELSE from_parent)

\* a variant of setSugaredVar that binds without a look at the enclosing frames
setSugaredVarUnchecked(c, i, name, value) ==
  Let(IF asSimple(value) # 0 THEN createCapturedInputIfNeeded(c, i, name).c ELSE c, LAMBDA c1 : [c1 EXCEPT !.frames[i].value_table[name] = value])

\* setSugaredVar on frame i (the innermost frame, or its parent in emitFor)
setSugaredVar(c, i, name, value) ==
  LET as_simple_value == asSimple(value)
      parent == findInParentFrame(c, i, name)
      simple_parent == asSimple(parent)
  IN IF parent # NoSV /\ as_simple_value = 0 THEN Throw(c, "ReassignNotFirstClass", <<name>>)
     ELSE IF parent # NoSV /\ simple_parent = 0 THEN Throw(c, "ReassignNotFirstClass", <<name>>)
     ELSE IF parent # NoSV /\ ~isSubtypeOf(c.vtype[as_simple_value], unshapedType(c.vtype[simple_parent])) THEN Throw(c, "ReassignType", <<name, c.vtype[simple_parent], c.vtype[as_simple_value]>>)
     ELSE Let(IF as_simple_value # 0 THEN createCapturedInputIfNeeded(c, i, name).c ELSE c, LAMBDA c1 : [c1 EXCEPT !.frames[i].value_table[name] = value])

setVar(c, i, name, v) == setSugaredVar(c, i, name, SimpleValue(v))

\* the fixed table of getSugaredVar and the resolver callback, which knows the
\* globals g and print of the module the function is defined in
globals(ident) == IF ident = "print" THEN [k |-> "print", v |-> 0] ELSE NoSV
resolver(ident) == IF ident \in {"g", "print"} THEN [k |-> "python", v |-> 0] ELSE NoSV

\* a variant of getSugaredVar that does not look for a saved type error
getSugaredVarUndefined(c, ident) ==
  Let(IF ident \in Names THEN createCapturedInputIfNeeded(c, top(c), ident) ELSE [c |-> c, r |-> NoSV], LAMBDA cap :
    LET r1 == IF cap.r # NoSV THEN cap.r ELSE globals(ident)
        retval == IF r1 # NoSV THEN r1 ELSE resolver(ident)
    IN IF retval # NoSV THEN [c |-> cap.c, r |-> retval]
       ELSE [c |-> Throw(cap.c, "UndefinedValue", <<ident>>), r |-> NoSV])

\* a variant of getSugaredVar that consults the fixed table before the frames
getSugaredVarGlobalsFirst(c, ident) ==
  IF globals(ident) # NoSV THEN [c |-> c, r |-> globals(ident)]
  ELSE Let(IF ident \in Names THEN createCapturedInputIfNeeded(c, top(c), ident) ELSE [c |-> c, r |-> NoSV], LAMBDA cap :
         LET retval == IF cap.r # NoSV THEN cap.r ELSE resolver(ident)
         IN IF retval # NoSV THEN [c |-> cap.c, r |-> retval]
            ELSE IF ident \in Names /\ findVariableTypeError(cap.c, ident) # NoMsg
                 THEN [c |-> Throw(cap.c, "DeferredTypeMismatch", findVariableTypeError(cap.c, ident)), r |-> NoSV]
                 ELSE [c |-> Throw(cap.c, "UndefinedValue", <<ident>>), r |-> NoSV])

\* getSugaredVar(ident, range, required = true) on the innermost frame
getSugaredVar(c, ident) ==
  Let(IF ident \in Names THEN createCapturedInputIfNeeded(c, top(c), ident) ELSE [c |-> c, r |-> NoSV], LAMBDA cap :
    LET r1 == IF cap.r # NoSV THEN cap.r ELSE globals(ident)
        retval == IF r1 # NoSV THEN r1 ELSE resolver(ident)
    IN IF retval # NoSV THEN [c |-> cap.c, r |-> retval]
       ELSE IF ident \in Names /\ findVariableTypeError(cap.c, ident) # NoMsg
            THEN [c |-> Throw(cap.c, "DeferredTypeMismatch", findVariableTypeError(cap.c, ident)), r |-> NoSV]
            ELSE [c |-> Throw(cap.c, "UndefinedValue", <<ident>>), r |-> NoSV])

\* SugaredValue::asValue: only a SimpleValue is a value
asValue(p) == IF p.c.status # "ok" THEN [c |-> p.c, v |-> 0] ELSE IF asSimple(p.r) = 0 THEN [c |-> Throw(p.c, "NotAValue", <<p.r.k>>), v |-> 0] ELSE [c |-> p.c, v |-> asSimple(p.r)]

getVar(c, ident) == Let(getSugaredVar(c, ident), LAMBDA p : asValue(p))

\* frame->getVar for a frame already popped (save_true, save_false, body_frame):
\* the frame is looked at on top of the stack it was popped from
getVarIn(c, frame, ident) ==
  Let(getVar([c EXCEPT !.frames = Append(@, frame)], ident), LAMBDA r : [c |-> popFrame(r.c), v |-> r.v, frame |-> Last(r.c.frames)])

definedVariablesSet(frame) == {n \in Names : frame.value_table[n] # NoSV}

\* definedVariables(): the bound names, in the map's iteration order
definedVariables(frame, order) == SelectSeq(order, LAMBDA n : frame.value_table[n] # NoSV)

\* ------------------------------------------------------------ expressions
\* an insertion point: the end of block b, or right before node `before` of b
AtEnd(b) == [b |-> b, before |-> 0]
Before(b, n) == [b |-> b, before |-> n]
CurrentPoint(c) == AtEnd(c.frames[top(c)].b)

InsertAtPoint(c, ip, kind, ins, outTypes, attr) ==
  IF ip.before = 0 THEN InsertNode(c, ip.b, kind, ins, outTypes, attr)
  ELSE InsertNodeBefore(c, ip.b, ip.before, kind, ins, outTypes, attr)

\* a variant of materializeConstant that inserts at the current insertion point
materializeIntConstantInPlace(c, val) ==
  IF c.integral_constants[val] # 0 THEN [c |-> c, v |-> c.integral_constants[val]]
  ELSE Let(InsertAtPoint(c, CurrentPoint(c), "prim::Constant", <<>>, <<"int">>, <<val>>), LAMBDA r : [c |-> [r.c EXCEPT !.integral_constants[val] = r.outs[1]], v |-> r.outs[1]])

\* materializeConstant on integral_constants: a literal seen before is returned again
materializeIntConstant(c, val) ==
  IF c.integral_constants[val] # 0 THEN [c |-> c, v |-> c.integral_constants[val]]
  ELSE Let(InsertNodeFront(c, "prim::Constant", <<>>, <<"int">>, <<val>>), LAMBDA r : [c |-> [r.c EXCEPT !.integral_constants[val] = r.outs[1]], v |-> r.outs[1]])

\* materializeConstant on fp_constants
materializeFpConstant(c, val) ==
  IF c.fp_constants[val] # 0 THEN [c |-> c, v |-> c.fp_constants[val]]
  ELSE Let(InsertNodeFront(c, "prim::Constant", <<>>, <<"float">>, <<val>>), LAMBDA r : [c |-> [r.c EXCEPT !.fp_constants[val] = r.outs[1]], v |-> r.outs[1]])

emitConst(c, lit) == IF lit.fp THEN materializeFpConstant(c, lit.val) ELSE materializeIntConstant(c, lit.val)

\* graph->insertConstant(val) at the insertion point, not interned
insertConstant(c, ip, type, val) ==
  Let(InsertAtPoint(c, ip, "prim::Constant", <<>>, <<type>>, <<val>>), LAMBDA r : [c |-> r.c, v |-> r.outs[1]])

\* ------------------------------------------------------------ schema matching
\* an Argument of a FunctionSchema: N is 0 for a list without a fixed size,
\* default_value is None or Some of the type and the value of a constant
Argument(name, type, N, default_value, kwarg_only) == [name |-> name, type |-> type, N |-> N, default_value |-> default_value, kwarg_only |-> kwarg_only]

\* a FunctionSchema with one return; id names the registered operator, args
\* are the types of the arguments
FunctionSchema(id, arguments, is_vararg, ret) == [id |-> id, arguments |-> arguments, args |-> [i \in 1..Len(arguments) |-> arguments[i].type], is_vararg |-> is_vararg, ret |-> ret]

\* the names of the arguments of a schema that is given by its types only
ArgNames == <<"self", "other", "alpha">>
\* a schema of positional arguments without defaults
Schema(id, args, ret) == FunctionSchema(id, [i \in 1..Len(args) |-> Argument(ArgNames[i], args[i], 0, None, FALSE)], FALSE, ret)

\* a NamedValue of a keyword argument
NamedValue(name, v) == [name |-> name, v |-> v]

\* type variables, and the TypeEnv a match attempt starts from
TypeVars == {"T1", "T2"}
EmptyTypeEnv == [t \in TypeVars |-> ""]

\* matchTypeVariables: a type variable is bound to the actual type where it
\* is met first and has to be met with that type again; type "" is no match
matchTypeVariables(formal, actual, type_env) ==
  IF formal \notin TypeVars THEN [type |-> formal, type_env |-> type_env]
  ELSE IF type_env[formal] = "" THEN [type |-> actual, type_env |-> [type_env EXCEPT ![formal] = actual]]
  ELSE IF type_env[formal] = actual THEN [type |-> actual, type_env |-> type_env]
  ELSE [type |-> "", type_env |-> type_env]

\* evalTypeVariables on a return type
evalTypeVariables(type, type_env) == IF type \in TypeVars THEN type_env[type] ELSE type

\* list types and their element types
ListTypes == {"int[]", "float[]"}
getElementType(t) == IF t = "int[]" THEN "int" ELSE "float"
unwrapOptional(t) == IF t = "int?" THEN "int" ELSE t

convertibleToList(type, list_type_) ==
  IF list_type_ \notin ListTypes THEN FALSE
  ELSE IF isSubtypeOf(type, list_type_) THEN TRUE
  ELSE IF type \in AllTupleTypes THEN \A i \in 1..Len(elements(type)) : isSubtypeOf(elements(type)[i], getElementType(list_type_))
  ELSE FALSE

isIntOrFloatUsedAsList(c, value, arg) ==
  /\ c.vtype[value] \in {"float", "int"}
  /\ unwrapOptional(arg.type) \in ListTypes
  /\ getElementType(unwrapOptional(arg.type)) = c.vtype[value]
  /\ arg.N # 0

\* graph.insertNode(graph.createList(elem_type, values))
createList(c, ip, elem_type, values) ==
  Let(InsertAtPoint(c, ip, "prim::ListConstruct", values, <<IF elem_type = "int" THEN "int[]" ELSE "float[]">>, <<>>), LAMBDA r : [c |-> r.c, v |-> r.outs[1]])

\* createTupleUnpack: the inputs of a prim::TupleConstruct, else a new node
createTupleUnpack(c, ip, v) ==
  IF producer(c, v) # 0 /\ c.nodes[producer(c, v)].kind = "prim::TupleConstruct" THEN [c |-> c, outs |-> c.nodes[producer(c, v)].inputs]
  ELSE Let(InsertAtPoint(c, ip, "prim::TupleUnpack", <<v>>, elements(c.vtype[v]), <<>>), LAMBDA r : [c |-> r.c, outs |-> r.outs])

\* tryConvertToType for formals that are neither tuples nor optional: a tuple
\* that is convertible becomes a list; with conversions allowed a tensor
\* becomes a number through prim::ImplicitTensorToNum
tryConvertToType(c, ip, concrete_type, value, allow_conversions) ==
  Let(IF c.vtype[value] \in AllTupleTypes /\ convertibleToList(c.vtype[value], unwrapOptional(concrete_type))
      THEN Let(createTupleUnpack(c, ip, value), LAMBDA unpacked : createList(unpacked.c, ip, getElementType(unwrapOptional(concrete_type)), unpacked.outs))
      ELSE [c |-> c, v |-> value], LAMBDA l :
    IF allow_conversions /\ isSubtypeOf(concrete_type, "number") /\ isSubtypeOf(l.c.vtype[l.v], "Tensor")
    THEN Let(InsertAtPoint(l.c, ip, "prim::ImplicitTensorToNum", <<l.v>>, <<concrete_type>>, <<>>), LAMBDA r : [c |-> r.c, v |-> r.outs[1]])
    ELSE l)

\* tryMatchArgument: v is nullptr (0) when the argument does not match
tryMatchArgument(c, ip, arg, value0, allow_conversions, type_env) ==
  Let(IF isIntOrFloatUsedAsList(c, value0, arg) THEN createList(c, ip, c.vtype[value0], [i \in 1..arg.N |-> value0]) ELSE [c |-> c, v |-> value0], LAMBDA value :
    Let(matchTypeVariables(arg.type, value.c.vtype[value.v], type_env), LAMBDA matched_type :
      IF matched_type.type = "" THEN [c |-> value.c, v |-> 0, type_env |-> matched_type.type_env, err |-> <<"could not match type", arg.name>>]
      ELSE Let(tryConvertToType(value.c, ip, matched_type.type, value.v, allow_conversions), LAMBDA r :
             IF ~isSubtypeOf(r.c.vtype[r.v], matched_type.type)
             THEN [c |-> r.c, v |-> 0, type_env |-> matched_type.type_env, err |-> <<"expected a value of type", arg.name>>]
             ELSE [c |-> r.c, v |-> r.v, type_env |-> matched_type.type_env, err |-> <<>>])))

\* findInputWithName: the index of the first keyword argument of that name, 0 if none
findInputWithName(name, kwargs) ==
  IF \E i \in 1..Len(kwargs) : kwargs[i].name = name THEN CHOOSE i \in 1..Len(kwargs) : kwargs[i].name = name /\ \A j \in 1..(i - 1) : kwargs[j].name # name ELSE 0

\* tryCreateList: the loop over varargs, then the list
RECURSIVE tryCreateList(_, _, _, _, _, _, _)
tryCreateList(c, ip, elem_type, varargs, allow_conversions, type_env, list_ctor) ==
  IF varargs = <<>> THEN Let(createList(c, ip, elem_type, list_ctor), LAMBDA l : [c |-> l.c, v |-> l.v, type_env |-> type_env, err |-> <<>>])
  ELSE Let(tryMatchArgument(c, ip, Argument("<varargs>", elem_type, 0, None, FALSE), Head(varargs), allow_conversions, type_env), LAMBDA av :
         IF av.v = 0 THEN av
         ELSE tryCreateList(av.c, ip, elem_type, Tail(varargs), allow_conversions, av.type_env, Append(list_ctor, av.v)))

\* the state of one call of tryMatchSchema: the graph c, the receiver while
\* unused, the positional arguments used, the keyword arguments used, the
\* TypeEnv, the inputs bound, and what err() wrote to failure_messages
MatchState(c, self, failure_messages) == [c |-> c, ok |-> TRUE, self |-> self, used_args |-> 0, used_kwarg |-> {}, type_env |-> EmptyTypeEnv, inputs |-> <<>>, msgs |-> failure_messages]

\* err() << ...; return c10::nullopt
matchFails(m, c, schema, msg) == [m EXCEPT !.c = c, !.ok = FALSE, !.inputs = <<>>, !.msgs = Append(@, <<schema.id>> \o msg)]

\* a variant of takesVarargs that asks for a list of a fixed size
takesVarargsFixed(schema, schema_i) ==
  LET arg == schema.arguments[schema_i]
  IN /\ arg.type \in ListTypes
     /\ arg.N # 0
     /\ (schema_i = Len(schema.arguments) \/ schema.arguments[schema_i + 1].kwarg_only)

\* the list argument that takes all the positional arguments left
takesVarargs(schema, schema_i) ==
  LET arg == schema.arguments[schema_i]
  IN /\ arg.type \in ListTypes
     /\ arg.N = 0
     /\ (schema_i = Len(schema.arguments) \/ schema.arguments[schema_i + 1].kwarg_only)

\* tryMatchArgument on the value found for argument schema_i
matchOne(m, ip, schema, schema_i, c, v, allow_conversions) ==
  Let(tryMatchArgument(c, ip, schema.arguments[schema_i], v, allow_conversions, m.type_env), LAMBDA positional :
    IF positional.v = 0 THEN matchFails([m EXCEPT !.type_env = positional.type_env], positional.c, schema, positional.err)
    ELSE [m EXCEPT !.c = positional.c, !.type_env = positional.type_env, !.inputs = Append(@, positional.v)])

\* a variant of the loop of tryMatchSchema that looks for a keyword argument
\* of the name of the argument before it takes a positional one
RECURSIVE matchArgumentsKeywordFirst(_, _, _, _, _, _, _)
matchArgumentsKeywordFirst(m, ip, schema, args, kwargs, allow_conversions, schema_i) ==
  IF ~m.ok \/ schema_i > Len(schema.arguments) THEN m
  ELSE LET arg == schema.arguments[schema_i]
           idx == findInputWithName(arg.name, kwargs)
           next(m1) == matchArgumentsKeywordFirst(m1, ip, schema, args, kwargs, allow_conversions, schema_i + 1)
       IN IF arg.name = "self" /\ m.self # None
          THEN Let(matchOne([m EXCEPT !.self = None], ip, schema, schema_i, m.c, m.self[1], allow_conversions), LAMBDA m1 : next(m1))
          ELSE IF idx # 0 /\ idx \notin m.used_kwarg
          THEN Let(matchOne([m EXCEPT !.used_kwarg = @ \cup {idx}], ip, schema, schema_i, m.c, kwargs[idx].v, allow_conversions), LAMBDA m1 : next(m1))
          ELSE IF ~arg.kwarg_only /\ m.used_args < Len(args)
          THEN Let(matchOne([m EXCEPT !.used_args = @ + 1], ip, schema, schema_i, m.c, args[m.used_args + 1], allow_conversions), LAMBDA m1 : next(m1))
          ELSE IF arg.default_value # None
          THEN Let(insertConstant(m.c, ip, arg.default_value[1].type, arg.default_value[1].val), LAMBDA d :
                 Let(matchOne(m, ip, schema, schema_i, d.c, d.v, allow_conversions), LAMBDA m1 : next(m1)))
          ELSE matchFails(m, m.c, schema, <<"not provided", arg.name>>)

\* the loop of tryMatchSchema over schema.arguments(), from argument schema_i on
RECURSIVE matchArguments(_, _, _, _, _, _, _)
matchArguments(m, ip, schema, args, kwargs, allow_conversions, schema_i) ==
  IF ~m.ok \/ schema_i > Len(schema.arguments) THEN m
  ELSE LET arg == schema.arguments[schema_i]
           idx == findInputWithName(arg.name, kwargs)
           next(m1) == matchArguments(m1, ip, schema, args, kwargs, allow_conversions, schema_i + 1)
       IN IF arg.name = "self" /\ m.self # None
          THEN Let(matchOne([m EXCEPT !.self = None], ip, schema, schema_i, m.c, m.self[1], allow_conversions), LAMBDA m1 : next(m1))
          ELSE IF ~arg.kwarg_only /\ m.used_args < Len(args)
          THEN IF takesVarargs(schema, schema_i) /\ m.c.vtype[args[m.used_args + 1]] \notin ListTypes /\ ~convertibleToList(m.c.vtype[args[m.used_args + 1]], unwrapOptional(arg.type))
               THEN Let(tryCreateList(m.c, ip, getElementType(unwrapOptional(arg.type)), SubSeq(args, m.used_args + 1, Len(args)), allow_conversions, m.type_env, <<>>), LAMBDA list :
                      IF list.v = 0 THEN matchFails([m EXCEPT !.type_env = list.type_env], list.c, schema, list.err)
                      ELSE Let([m EXCEPT !.c = list.c, !.type_env = list.type_env, !.used_args = Len(args), !.inputs = Append(@, list.v)], LAMBDA m1 : next(m1)))
               ELSE Let(matchOne([m EXCEPT !.used_args = @ + 1], ip, schema, schema_i, m.c, args[m.used_args + 1], allow_conversions), LAMBDA m1 : next(m1))
          ELSE IF idx # 0
          THEN IF idx \in m.used_kwarg THEN matchFails(m, m.c, schema, <<"specified twice in schema", arg.name>>)
               ELSE Let(matchOne([m EXCEPT !.used_kwarg = @ \cup {idx}], ip, schema, schema_i, m.c, kwargs[idx].v, allow_conversions), LAMBDA m1 : next(m1))
          ELSE IF arg.default_value # None
          THEN Let(insertConstant(m.c, ip, arg.default_value[1].type, arg.default_value[1].val), LAMBDA d :
                 Let(matchOne(m, ip, schema, schema_i, d.c, d.v, allow_conversions), LAMBDA m1 : next(m1)))
          ELSE matchFails(m, m.c, schema, <<"not provided", arg.name>>)

\* schema.argumentIndexWithName
argumentIndexWithName(schema, name) == \E i \in 1..Len(schema.arguments) : schema.arguments[i].name = name

\* a variant of matchLeftovers that lets unused keyword arguments pass
matchLeftoversLenient(m0, schema, args, kwargs) ==
  LET m1 == IF m0.self # None THEN [m0 EXCEPT !.msgs = Append(@, <<schema.id, "provided self argument not used in schema">>)] ELSE m0
      m == IF schema.is_vararg THEN [m1 EXCEPT !.inputs = @ \o SubSeq(args, m1.used_args + 1, Len(args)), !.used_args = Len(args)] ELSE m1
  IN IF m.used_args < Len(args) THEN matchFails(m, m.c, schema, <<"expected at most", m.used_args, Len(args)>>) ELSE m

\* tryMatchSchema after the loop over the arguments
matchLeftovers(m0, schema, args, kwargs) ==
  LET m1 == IF m0.self # None THEN [m0 EXCEPT !.msgs = Append(@, <<schema.id, "provided self argument not used in schema">>)] ELSE m0
      m == IF schema.is_vararg THEN [m1 EXCEPT !.inputs = @ \o SubSeq(args, m1.used_args + 1, Len(args)), !.used_args = Len(args)] ELSE m1
      unused == {i \in 1..Len(kwargs) : i \notin m.used_kwarg}
      i == CHOOSE i \in unused : \A j \in unused : i <= j
  IN IF m.used_args < Len(args) THEN matchFails(m, m.c, schema, <<"expected at most", m.used_args, Len(args)>>)
     ELSE IF unused # {}
     THEN IF ~argumentIndexWithName(schema, kwargs[i].name) THEN matchFails(m, m.c, schema, <<"keyword argument unknown", kwargs[i].name>>)
          ELSE matchFails(m, m.c, schema, <<"keyword argument specified twice", kwargs[i].name>>)
     ELSE m

\* tryMatchSchema from the TypeEnv type_env on: ok is FALSE for nullopt
tryMatchSchemaFrom(c, ip, schema, self, args, kwargs, failure_messages, allow_conversions, type_env) ==
  Let(matchArguments([MatchState(c, self, failure_messages) EXCEPT !.type_env = type_env], ip, schema, args, kwargs, allow_conversions, 1), LAMBDA m :
    IF ~m.ok THEN [m EXCEPT !.self = None] @@ [ret |-> ""]
    ELSE Let(matchLeftovers(m, schema, args, kwargs), LAMBDA m2 : [m2 EXCEPT !.self = None] @@ [ret |-> IF m2.ok THEN evalTypeVariables(schema.ret, m2.type_env) ELSE ""]))

\* tryMatchSchema: `TypeEnv type_env;` is a local of the call
tryMatchSchema(c, ip, schema, self, args, kwargs, failure_messages, allow_conversions) ==
  tryMatchSchemaFrom(c, ip, schema, self, args, kwargs, failure_messages, allow_conversions, EmptyTypeEnv)

\* emitBuiltinNode
emitBuiltinNode(c, ip, matched_schema, id, name) ==
  Let(InsertAtPoint(c, ip, name, matched_schema.inputs, <<matched_schema.ret>>, <<id>>), LAMBDA r : [c |-> r.c, v |-> r.outs[1]])

\* try_emit_call_to: the method's schema is matched, then its graph is inlined
try_emit_call_to(c, ip, schema, self, args, kwargs, failure_messages, allow_conversions) ==
  Let(tryMatchSchema(c, ip, schema, self, args, kwargs, failure_messages, allow_conversions), LAMBDA m :
    IF ~m.ok THEN [c |-> m.c, v |-> 0, msgs |-> m.msgs]
    ELSE Let(InsertAtPoint(m.c, ip, "inlined", m.inputs, <<m.ret>>, <<schema.id>>), LAMBDA r : [c |-> r.c, v |-> r.outs[1], msgs |-> m.msgs]))

\* one candidate of emitBuiltinCall: an operator or a builtin function
tryCandidate(c, ip, name, cand, self, args, kwargs, failure_messages, allow_conversions) ==
  IF cand.fn THEN try_emit_call_to(c, ip, cand.schema, self, args, kwargs, failure_messages, allow_conversions)
  ELSE Let(tryMatchSchema(c, ip, cand.schema, self, args, kwargs, failure_messages, allow_conversions), LAMBDA m :
         IF m.ok THEN Let(emitBuiltinNode(m.c, ip, m, cand.schema.id, name), LAMBDA r : [c |-> r.c, v |-> r.v, msgs |-> m.msgs])
         ELSE [c |-> m.c, v |-> 0, msgs |-> m.msgs])

\* a variant of the candidate loops in which the TypeEnv outlives the attempt:
\* a candidate starts from the TypeEnv the candidate before it ended with
RECURSIVE tryCandidatesFrom(_, _, _, _, _, _, _, _, _, _)
tryCandidatesFrom(c, ip, name, cands, self, args, kwargs, failure_messages, allow_conversions, type_env) ==
  IF cands = <<>> THEN [c |-> c, v |-> 0, msgs |-> failure_messages]
  ELSE Let(tryMatchSchemaFrom(c, ip, Head(cands).schema, self, args, kwargs, failure_messages, allow_conversions, type_env), LAMBDA m :
         IF m.ok THEN Let(emitBuiltinNode(m.c, ip, m, Head(cands).schema.id, name), LAMBDA r : [c |-> r.c, v |-> r.v, msgs |-> m.msgs])
         ELSE tryCandidatesFrom(m.c, ip, name, Tail(cands), self, args, kwargs, m.msgs, allow_conversions, m.type_env))
tryCandidatesSharedEnv(c, ip, name, cands, self, args, kwargs, failure_messages, allow_conversions) ==
  tryCandidatesFrom(c, ip, name, cands, self, args, kwargs, failure_messages, allow_conversions, EmptyTypeEnv)

\* the two inner loops of emitBuiltinCall, one after the other: variants, then
\* builtin_functions, up to the first that matches
RECURSIVE tryCandidates(_, _, _, _, _, _, _, _, _)
tryCandidates(c, ip, name, cands, self, args, kwargs, failure_messages, allow_conversions) ==
  IF cands = <<>> THEN [c |-> c, v |-> 0, msgs |-> failure_messages]
  ELSE Let(tryCandidate(c, ip, name, Head(cands), self, args, kwargs, failure_messages, allow_conversions), LAMBDA r :
         IF r.v # 0 THEN r ELSE tryCandidates(r.c, ip, name, Tail(cands), self, args, kwargs, r.msgs, allow_conversions))

Candidates(variants, builtin_functions) ==
  [i \in 1..Len(variants) |-> [fn |-> FALSE, schema |-> variants[i]]] \o [i \in 1..Len(builtin_functions) |-> [fn |-> TRUE, schema |-> builtin_functions[i]]]

\* "none of the options worked"
noneWorked(c, variants, required, failure_messages) ==
  IF ~required THEN [c |-> c, v |-> 0]
  ELSE IF variants = <<>> THEN [c |-> Throw(c, "UnknownBuiltin", NoMsg), v |-> 0]
  ELSE [c |-> Throw(c, "CallNotValid", failure_messages), v |-> 0]

\* a variant of emitBuiltinCall with the loops exchanged: each candidate is
\* tried without and then with conversions before the next candidate
RECURSIVE tryCandidatesBothWays(_, _, _, _, _, _, _, _)
tryCandidatesBothWays(c, ip, name, cands, self, args, kwargs, failure_messages) ==
  IF cands = <<>> THEN [c |-> c, v |-> 0, msgs |-> failure_messages]
  ELSE Let(tryCandidates(c, ip, name, <<Head(cands)>>, self, args, kwargs, failure_messages, FALSE), LAMBDA p1 :
         IF p1.v # 0 THEN p1
         ELSE Let(tryCandidates(p1.c, ip, name, <<Head(cands)>>, self, args, kwargs, p1.msgs, TRUE), LAMBDA p2 :
                IF p2.v # 0 THEN p2 ELSE tryCandidatesBothWays(p2.c, ip, name, Tail(cands), self, args, kwargs, p2.msgs)))

emitBuiltinCallByCandidate(c, ip, name, variants, builtin_functions, self, inputs, attributes, required) ==
  Let(tryCandidatesBothWays(c, ip, name, Candidates(variants, builtin_functions), self, inputs, attributes, <<>>), LAMBDA r :
    IF r.v # 0 THEN [c |-> r.c, v |-> r.v] ELSE noneWorked(r.c, variants, required, r.msgs))

\* emitBuiltinCall: `for (bool allow_conversions : {false, true})` around the
\* two candidate loops; failure_messages is cleared at the start of each pass
emitBuiltinCall(c, ip, name, variants, builtin_functions, self, inputs, attributes, required) ==
  LET cands == Candidates(variants, builtin_functions)
  IN Let(tryCandidates(c, ip, name, cands, self, inputs, attributes, <<>>, FALSE), LAMBDA pass1 :
       IF pass1.v # 0 THEN [c |-> pass1.c, v |-> pass1.v]
       ELSE Let(tryCandidates(pass1.c, ip, name, cands, self, inputs, attributes, <<>>, TRUE), LAMBDA pass2 :
              IF pass2.v # 0 THEN [c |-> pass2.c, v |-> pass2.v] ELSE noneWorked(pass2.c, variants, required, pass2.msgs)))

\* getAllOperatorsFor on the operator symbols the expressions of the model use
getAllOperatorsFor(name) ==
  CASE name = "aten::add" -> <<Schema(1, <<"int", "int">>, "int"), Schema(2, <<"float", "int">>, "float")>>
    [] name = "aten::lt" -> <<Schema(3, <<"int", "int">>, "bool"), Schema(4, <<"float", "int">>, "bool")>>
    [] name = "aten::__is__" -> <<Schema(5, <<"T1", "T2">>, "bool")>>
    [] name = "aten::__isnot__" -> <<Schema(6, <<"T1", "T2">>, "bool")>>
    [] name = "aten::neg" -> <<Schema(7, <<"int">>, "int")>>
    [] OTHER -> <<>>

\* emitSimpleExpr on `x <op> literal`: getNamedValues lowers both operands,
\* then emitBuiltinCall with required = true
emitBinOp(c, ip, kind, x, lit) ==
  Let(getVar(c, x), LAMBDA lhs :
    IF lhs.c.status # "ok" THEN [c |-> lhs.c, v |-> 0]
    ELSE Let(emitConst(lhs.c, lit), LAMBDA rhs : emitBuiltinCall(rhs.c, ip, kind, getAllOperatorsFor(kind), <<>>, None, <<lhs.v, rhs.v>>, <<>>, TRUE)))

\* emitNegate of an integer literal: the aten::neg call, then the folded constant
emitNegate(c, ip, k) ==
  Let(emitConst(c, IntLit(k)), LAMBDA operand :
    Let(emitBuiltinCall(operand.c, ip, "aten::neg", getAllOperatorsFor("aten::neg"), <<>>, None, <<operand.v>>, <<>>, TRUE), LAMBDA neg_val :
      IF neg_val.c.status # "ok" THEN neg_val
      ELSE IF toIValue(neg_val.c, neg_val.c.nodes[producer(neg_val.c, neg_val.v)].inputs[1]) = None THEN neg_val
      ELSE insertConstant(neg_val.c, ip, "int", 0 - k)))

\* emitCond: the literal True, or the comparison `x < 3` of a variable x;
\* both are of type bool
emitCond(c, cond, ip) == IF cond = "True" THEN insertConstant(c, ip, "bool", 1) ELSE emitBinOp(c, ip, "aten::lt", cond, IntLit(3))

\* emitSugaredExpr on the right-hand sides of the model:
\*   var: a variable y, const: a literal y, add: `y + 1`
emitSugaredExpr(c, e, y) ==
  IF e = "var" THEN getSugaredVar(c, y)
  ELSE Let(IF e = "const" THEN emitConst(c, y) ELSE emitBinOp(c, CurrentPoint(c), "aten::add", y, IntLit(1)), LAMBDA r : [c |-> r.c, r |-> IF r.c.status = "ok" THEN SimpleValue(r.v) ELSE NoSV])

\* emitAssignment, TK_VAR on the left
emitAssignment(c, x, e, y) ==
  Let(emitSugaredExpr(c, e, y), LAMBDA rhs : IF rhs.c.status # "ok" THEN rhs.c ELSE setSugaredVar(rhs.c, top(rhs.c), x, rhs.r))

\* emitStatements, TK_EXPR_STMT
emitExprStmt(c, e, y) == emitSugaredExpr(c, e, y).c

\* getNamedValues on the argument variables args[i..]
RECURSIVE getNamedValues(_, _, _, _)
getNamedValues(c, args, i, vs) ==
  IF i > Len(args) \/ c.status # "ok" THEN [c |-> c, vs |-> vs]
  ELSE Let(getVar(c, args[i]), LAMBDA g : getNamedValues(g.c, args, i + 1, Append(vs, g.v)))

\* emitStatements, TK_EXPR_STMT on a call f(args) of the operator symbol whose
\* registered overloads are variants and whose library functions are builtin_functions
emitCallStmt(c, variants, builtin_functions, args) ==
  Let(getNamedValues(c, args, 1, <<>>), LAMBDA a :
    IF a.c.status # "ok" THEN a.c
    ELSE emitBuiltinCall(a.c, CurrentPoint(a.c), "f", variants, builtin_functions, None, a.vs, <<>>, TRUE).c)

\* the same on a call `self.f(args, name = value, ..)`: self is None or Some
\* variable, kwargs are the keyword arguments with a variable each
emitApplyStmt(c, variants, self, args, kwargs) ==
  Let(getNamedValues(c, self \o args \o [i \in 1..Len(kwargs) |-> kwargs[i].v], 1, <<>>), LAMBDA a :
    IF a.c.status # "ok" THEN a.c
    ELSE LET inputs == SubSeq(a.vs, Len(self) + 1, Len(self) + Len(args))
             attributes == [i \in 1..Len(kwargs) |-> NamedValue(kwargs[i].name, a.vs[Len(self) + Len(args) + i])]
         IN emitBuiltinCall(a.c, CurrentPoint(a.c), "f", variants, <<>>, IF self = None THEN None ELSE Some(a.vs[1]), inputs, attributes, TRUE).c)

\* ------------------------------------------------------------ tuples
\* emitExpr on an index expression: a literal k, `-k`, the literal 1.5, or
\* the variable b
emitIdxExpr(c, ip, e) ==
  CASE e.k = "lit" -> emitConst(c, IntLit(e.v))
    [] e.k = "neg" -> emitNegate(c, ip, e.v)
    [] e.k = "fp" -> emitConst(c, FpLit(e.v))
    [] OTHER -> getVar(c, "b")

\* a variant of getTupleIndexVal that does not count a negative index from the end
getTupleIndexValNoWrap(c, tuple_type, idx_val, allow_out_of_bounds) ==
  LET ivalue == toIValue(c, idx_val)
      index == ivalue[1].val
      tuple_len == Len(elements(tuple_type))
  IN IF ivalue = None \/ ivalue[1].type # "int" THEN [c |-> Throw(c, "TupleIndexNotConstant", NoMsg), adj |-> 0]
     ELSE IF ~allow_out_of_bounds /\ (index >= tuple_len \/ index < 0) THEN [c |-> Throw(c, "TupleIndexOutOfRange", <<tuple_len, index>>), adj |-> 0]
     ELSE [c |-> c, adj |-> index]

getTupleIndexVal(c, tuple_type, idx_val, allow_out_of_bounds) ==
  LET ivalue == toIValue(c, idx_val)
      index == ivalue[1].val
      tuple_len == Len(elements(tuple_type))
      adj_index == IF index < 0 THEN tuple_len + index ELSE index
  IN IF ivalue = None \/ ivalue[1].type # "int" THEN [c |-> Throw(c, "TupleIndexNotConstant", NoMsg), adj |-> 0]
     ELSE IF ~allow_out_of_bounds /\ (adj_index >= tuple_len \/ adj_index < 0) THEN [c |-> Throw(c, "TupleIndexOutOfRange", <<tuple_len, index>>), adj |-> 0]
     ELSE [c |-> c, adj |-> adj_index]

emitTupleIndex(c, ip, tuple_val, idx_val) ==
  Let(getTupleIndexVal(c, c.vtype[tuple_val], idx_val, FALSE), LAMBDA adj_index :
    IF adj_index.c.status # "ok" THEN [c |-> adj_index.c, v |-> 0]
    ELSE Let(InsertAtPoint(c, ip, "prim::TupleIndex", <<tuple_val>>, <<elements(c.vtype[tuple_val])[adj_index.adj + 1]>>, <<adj_index.adj>>), LAMBDA r : [c |-> r.c, v |-> r.outs[1]]))

Min(x, y) == IF x < y THEN x ELSE y
Max(x, y) == IF x > y THEN x ELSE y

\* a variant of emitTupleSlice that checks its bounds as a point index is checked
emitTupleSliceChecked(c, ip, tuple_val, beg_val, end_val) ==
  LET tuple_type == c.vtype[tuple_val]
      tuple_len == Len(elements(tuple_type))
  IN Let(getTupleIndexVal(c, tuple_type, beg_val, FALSE), LAMBDA beg0 :
       IF beg0.c.status # "ok" THEN [c |-> beg0.c, v |-> 0]
       ELSE Let(IF end_val # None THEN getTupleIndexVal(c, tuple_type, end_val[1], FALSE) ELSE [c |-> c, adj |-> tuple_len], LAMBDA end0 :
              IF end0.c.status # "ok" THEN [c |-> end0.c, v |-> 0]
              ELSE Let(InsertAtPoint(c, ip, "prim::TupleSlice", <<tuple_val>>, <<TupleOf(SubSeq(elements(tuple_type), beg0.adj + 1, end0.adj))>>, <<beg0.adj, end0.adj>>), LAMBDA r : [c |-> r.c, v |-> r.outs[1]])))

emitTupleSlice(c, ip, tuple_val, beg_val, end_val) ==
  LET tuple_type == c.vtype[tuple_val]
      tuple_len == Len(elements(tuple_type))
  IN Let(getTupleIndexVal(c, tuple_type, beg_val, TRUE), LAMBDA beg0 :
       IF beg0.c.status # "ok" THEN [c |-> beg0.c, v |-> 0]
       ELSE Let(IF end_val # None THEN getTupleIndexVal(c, tuple_type, end_val[1], TRUE) ELSE [c |-> c, adj |-> tuple_len], LAMBDA end0 :
              IF end0.c.status # "ok" THEN [c |-> end0.c, v |-> 0]
              ELSE LET end == Min(Max(0, end0.adj), tuple_len)
                       beg == Min(Max(0, beg0.adj), tuple_len)
                   IN Let(InsertAtPoint(c, ip, "prim::TupleSlice", <<tuple_val>>, <<TupleOf(SubSeq(elements(tuple_type), beg + 1, end))>>, <<beg, end>>), LAMBDA r : [c |-> r.c, v |-> r.outs[1]])))

\* emitSubscript on `t[idx]`, t a tuple
emitSubscript(c, t, idx) ==
  Let(getVar(c, t), LAMBDA sliceable :
    IF sliceable.c.status # "ok" THEN sliceable.c
    ELSE Let(emitIdxExpr(sliceable.c, CurrentPoint(c), idx), LAMBDA idx_val :
           IF idx_val.c.status # "ok" THEN idx_val.c
           ELSE emitTupleIndex(idx_val.c, CurrentPoint(c), sliceable.v, idx_val.v).c))

\* emitSubscript, emitBasicSlice and emitSlice on `t[begin:end]`, t a tuple;
\* end is None for `t[begin:]`
emitSlice(c, t, begin, end) ==
  Let(getVar(c, t), LAMBDA input :
    IF input.c.status # "ok" THEN input.c
    ELSE Let(emitIdxExpr(input.c, CurrentPoint(c), begin), LAMBDA beg_val :
           IF beg_val.c.status # "ok" THEN beg_val.c
           ELSE IF end = None THEN emitTupleSlice(beg_val.c, CurrentPoint(c), input.v, beg_val.v, None).c
           ELSE Let(emitIdxExpr(beg_val.c, CurrentPoint(c), end[1]), LAMBDA end_val :
                  IF end_val.c.status # "ok" THEN end_val.c
                  ELSE emitTupleSlice(end_val.c, CurrentPoint(c), input.v, beg_val.v, Some(end_val.v)).c)))

\* ------------------------------------------------------------ if / else
NoFrame == <<>>
\* the place inside the handler of an enclosing compound statement:
\*   h     if (emitIfElseBlocks), static (emitIf without a node), loop
\*   n     the If or Loop node
\*   phase the branch being emitted
\*   saved save_true, once the true branch is done
\*   cond  the loop condition
\*   emit  static: the branch whose statements are emitted
Ctl(h, n, phase, saved, cond, emit) == [h |-> h, n |-> n, phase |-> phase, saved |-> saved, cond |-> cond, emit |-> emit]

\* emitIfElseBlocks up to the true branch: the If node, its two blocks, and
\* emitSingleIfBranch(true_block) up to its statements
emitIfElseBlocksTrue(c, cond_value) ==
  Let(InsertAtPoint(c, CurrentPoint(c), "prim::If", <<cond_value>>, <<>>, <<>>), LAMBDA r :
    Let(addBlock(r.c, r.n), LAMBDA true_block :
      Let(addBlock(true_block.c, r.n), LAMBDA false_block :
        [pushFrame(false_block.c, true_block.b) EXCEPT !.ctl = Append(@, Ctl("if", r.n, "true", NoFrame, None, ""))])))

\* SugaredValue::isNone, from the type of the value
isNone(c, sv) ==
  IF asSimple(sv) = 0 THEN "NEVER"
  ELSE IF c.vtype[asSimple(sv)] = "None" THEN "ALWAYS"
  ELSE IF c.vtype[asSimple(sv)] = "int?" THEN "MAYBE"
  ELSE "NEVER"

\* an operand of `is`: a variable, or the literal None
emitIsOperand(c, e) ==
  IF e = "None" THEN Let(insertConstant(c, CurrentPoint(c), "None", 0), LAMBDA r : [c |-> r.c, r |-> SimpleValue(r.v)])
  ELSE getSugaredVar(c, e)

\* emitIf on an ordinary condition, up to the statements of the true branch
emitIf(c, cond) ==
  Let(emitCond(c, cond, CurrentPoint(c)), LAMBDA cond_value :
    IF cond_value.c.status # "ok" THEN cond_value.c ELSE emitIfElseBlocksTrue(cond_value.c, cond_value.v))

\* a variant of emitIf that emits the always_none_branch whenever it decides statically
emitIfIsOneBranch(c, kind, lhs, rhs) ==
  Let(emitIsOperand(c, lhs), LAMBDA lhs_val :
    IF lhs_val.c.status # "ok" THEN lhs_val.c
    ELSE Let(emitIsOperand(lhs_val.c, rhs), LAMBDA rhs_val :
      IF rhs_val.c.status # "ok" THEN rhs_val.c
      ELSE LET c1 == rhs_val.c
               always_none_branch == IF kind = "TK_IS" THEN "true" ELSE "false"
               never_none_branch == IF kind = "TK_IS" THEN "false" ELSE "true"
               lhs_none == isNone(c1, lhs_val.r)
               rhs_none == isNone(c1, rhs_val.r)
               name == IF kind = "TK_IS" THEN "aten::__is__" ELSE "aten::__isnot__"
           IN IF lhs_none = "ALWAYS" /\ rhs_none = "ALWAYS"
              THEN [c1 EXCEPT !.ctl = Append(@, Ctl("static", 0, "true", NoFrame, None, always_none_branch))]
              ELSE IF (lhs_none = "ALWAYS" /\ rhs_none = "NEVER") \/ (lhs_none = "NEVER" /\ rhs_none = "ALWAYS")
              THEN [c1 EXCEPT !.ctl = Append(@, Ctl("static", 0, "true", NoFrame, None, always_none_branch))]
              ELSE Let(asValue([c |-> c1, r |-> lhs_val.r]), LAMBDA l :
                     Let(asValue([c |-> l.c, r |-> rhs_val.r]), LAMBDA r :
                       IF r.c.status # "ok" THEN r.c
                       ELSE Let(emitBuiltinCall(r.c, CurrentPoint(r.c), name, getAllOperatorsFor(name), <<>>, None, <<l.v, r.v>>, <<>>, TRUE), LAMBDA cond_value :
                              IF cond_value.c.status # "ok" THEN cond_value.c ELSE emitIfElseBlocksTrue(cond_value.c, cond_value.v))))))

\* emitIf on `lhs is rhs` (kind TK_IS) or `lhs is not rhs` (kind TK_ISNOT), up
\* to the statements of the true branch
emitIfIs(c, kind, lhs, rhs) ==
  Let(emitIsOperand(c, lhs), LAMBDA lhs_val :
    IF lhs_val.c.status # "ok" THEN lhs_val.c
    ELSE Let(emitIsOperand(lhs_val.c, rhs), LAMBDA rhs_val :
      IF rhs_val.c.status # "ok" THEN rhs_val.c
      ELSE LET c1 == rhs_val.c
               always_none_branch == IF kind = "TK_IS" THEN "true" ELSE "false"
               never_none_branch == IF kind = "TK_IS" THEN "false" ELSE "true"
               lhs_none == isNone(c1, lhs_val.r)
               rhs_none == isNone(c1, rhs_val.r)
               name == IF kind = "TK_IS" THEN "aten::__is__" ELSE "aten::__isnot__"
           IN IF lhs_none = "ALWAYS" /\ rhs_none = "ALWAYS"
              THEN [c1 EXCEPT !.ctl = Append(@, Ctl("static", 0, "true", NoFrame, None, always_none_branch))]
              ELSE IF (lhs_none = "ALWAYS" /\ rhs_none = "NEVER") \/ (lhs_none = "NEVER" /\ rhs_none = "ALWAYS")
              THEN [c1 EXCEPT !.ctl = Append(@, Ctl("static", 0, "true", NoFrame, None, never_none_branch))]
              ELSE Let(asValue([c |-> c1, r |-> lhs_val.r]), LAMBDA l :
                     Let(asValue([c |-> l.c, r |-> rhs_val.r]), LAMBDA r :
                       IF r.c.status # "ok" THEN r.c
                       ELSE Let(emitBuiltinCall(r.c, CurrentPoint(r.c), name, getAllOperatorsFor(name), <<>>, None, <<l.v, r.v>>, <<>>, TRUE), LAMBDA cond_value :
                              IF cond_value.c.status # "ok" THEN cond_value.c ELSE emitIfElseBlocksTrue(cond_value.c, cond_value.v))))))
\* the true branch is done: popFrame gives save_true, then
\* emitSingleIfBranch(false_block) up to its statements
emitIfElseBlocksFalse(c) ==
  LET k == Last(c.ctl)
      save_true == Last(c.frames)
      c1 == pushFrame(popFrame(c), c.nodes[k.n].blocks[2])
  IN [c1 EXCEPT !.ctl[Len(c.ctl)] = Ctl("if", k.n, "false", <<save_true>>, None, "")]

\* names sorted alphabetically: the iteration order of std::set<std::string>
RECURSIVE SortedNames(_)
SortedNames(S) ==
  IF S = {} THEN <<>>
  ELSE LET m == CHOOSE x \in S : \A y \in S : NameRank(x) <= NameRank(y)
       IN <<m>> \o SortedNames(S \ {m})

inAnyFrameOf(c, frame, v) == findInAnyFrame([c EXCEPT !.frames = Append(@, frame)], Len(c.frames) + 1, v) # NoSV

\* a variant of mutated_variables without the loop over save_false
mutated_variables_true(c, save_true, save_false, order) ==
  SortedNames({v \in Range(definedVariables(save_true, order)) : inAnyFrameOf(c, save_false, v)})

\* a variant of mutated_variables that looks in the branch frames only
mutated_variables_both(c, save_true, save_false, order) ==
  SortedNames({v \in Range(definedVariables(save_true, order)) : save_false.value_table[v] # NoSV})

\* mutated_variables: defined in one branch frame and visible from the other
mutated_variables(c, save_true, save_false, order) ==
  LET fromTrue == {v \in Range(definedVariables(save_true, order)) : inAnyFrameOf(c, save_false, v)}
      fromFalse == {v \in Range(definedVariables(save_false, order)) : inAnyFrameOf(c, save_true, v)}
  IN SortedNames(fromTrue \cup fromFalse)

\* one round of "Register outputs in each block" for the mutated variable x
registerOutput(c, n, save_true, save_false, x) ==
  Let(getVarIn(c, save_true, x), LAMBDA t :
    IF t.c.status # "ok" THEN t.c
    ELSE Let(getVarIn(t.c, save_false, x), LAMBDA f :
      LET c1 == f.c
          tt == c1.vtype[t.v]
          ft == c1.vtype[f.v]
          unified == unifyTypes(tt, ft)
          inParent == findInAnyFrame(c1, top(c1), x) # NoSV
          out == Len(c1.vtype) + 1
          true_block == c1.nodes[n].blocks[1]
          false_block == c1.nodes[n].blocks[2]
      IN IF c1.status # "ok" THEN c1
         ELSE IF unified = "" THEN (IF inParent THEN Throw(c1, "IfTypeMismatch", <<x, tt, ft>>) ELSE setVariableTypeError(c1, x, <<x, tt, ft>>))
         ELSE Let([c1 EXCEPT !.blocks[true_block].outputs = Append(@, t.v), !.blocks[false_block].outputs = Append(@, f.v), !.nodes[n].outputs = Append(@, out), !.vtype = Append(@, unified)], LAMBDA c2 : setVar(c2, top(c2), x, out))))

RECURSIVE registerOutputs(_, _, _, _, _)
registerOutputs(c, n, save_true, save_false, xs) ==
  IF xs = <<>> \/ c.status # "ok" THEN c
  ELSE Let(registerOutput(c, n, save_true, save_false, Head(xs)), LAMBDA c1 : registerOutputs(c1, n, save_true, save_false, Tail(xs)))

\* a variant of mutated_variables in the order the names are met, as a
\* std::vector filled from the unordered maps would have them
mutated_variables_unordered(c, save_true, save_false, order) ==
  LET fromTrue == SelectSeq(definedVariables(save_true, order), LAMBDA v : inAnyFrameOf(c, save_false, v))
      fromFalse == SelectSeq(definedVariables(save_false, order), LAMBDA v : inAnyFrameOf(c, save_true, v) /\ v \notin Range(fromTrue))
  IN fromTrue \o fromFalse

\* the false branch is done: popFrame gives save_false, then the rest of emitIfElseBlocks
emitIfElseBlocksJoin(c, order) ==
  LET k == Last(c.ctl)
      save_true == k.saved[1]
      save_false == Last(c.frames)
  IN Let([popFrame(c) EXCEPT !.ctl = SubSeq(@, 1, Len(@) - 1)], LAMBDA c1 : registerOutputs(c1, k.n, save_true, save_false, mutated_variables(c1, save_true, save_false, order)))

\* ------------------------------------------------------------ loops
\* b->eraseInput(i), b->eraseOutput(i), captured_inputs.erase(i - 1) for the
\* slots i, i-1, ..., 1 (0-based) whose input is also the output
RECURSIVE deleteExtraInputsFrom(_, _, _)
deleteExtraInputsFrom(c, frame, i) ==
  IF i <= 0 THEN [c |-> c, frame |-> frame]
  ELSE LET b == frame.b
           in == c.blocks[b].inputs[i + 1]
       IN IF in = c.blocks[b].outputs[i + 1]
          THEN LET name == frame.captured_inputs[i]
                   orig == asValue([c |-> c, r |-> findInAnyFrame(c, top(c), name)])
               IN Let([replaceAllUsesWith(orig.c, in, orig.v) EXCEPT !.blocks[b].inputs = RemoveAt(@, i + 1), !.blocks[b].outputs = RemoveAt(@, i + 1)], LAMBDA c2 :
                    deleteExtraInputsFrom(c2, [frame EXCEPT !.captured_inputs = RemoveAt(@, i)], i - 1))
          ELSE deleteExtraInputsFrom(c, frame, i - 1)

\* a variant of deleteExtraInputs that erases the slots and leaves the uses
\* of their inputs as they are
RECURSIVE deleteExtraInputsFromNoReplace(_, _, _)
deleteExtraInputsFromNoReplace(c, frame, i) ==
  IF i <= 0 THEN [c |-> c, frame |-> frame]
  ELSE LET b == frame.b
       IN IF c.blocks[b].inputs[i + 1] = c.blocks[b].outputs[i + 1]
          THEN Let([c EXCEPT !.blocks[b].inputs = RemoveAt(@, i + 1), !.blocks[b].outputs = RemoveAt(@, i + 1)], LAMBDA c2 :
                 deleteExtraInputsFromNoReplace(c2, [frame EXCEPT !.captured_inputs = RemoveAt(@, i)], i - 1))
          ELSE deleteExtraInputsFromNoReplace(c, frame, i - 1)
deleteExtraInputsNoReplace(c, frame) == deleteExtraInputsFromNoReplace(c, frame, Len(c.blocks[frame.b].inputs) - 1)

\* a variant of deleteExtraInputs that keeps every captured input
deleteExtraInputsKept(c, frame) == [c |-> c, frame |-> frame]

\* deleteExtraInputs on the popped body frame; its parent is the top of the stack
deleteExtraInputs(c, frame) ==
  LET b == frame.b
  IN IF Len(c.blocks[b].inputs) # Len(c.blocks[b].outputs) \/ Len(c.blocks[b].inputs) # Len(frame.captured_inputs) + 1
     THEN [c |-> Throw(c, "JIT_ASSERT", <<"deleteExtraInputs">>), frame |-> frame]
     ELSE deleteExtraInputsFrom(c, frame, Len(c.blocks[b].inputs) - 1)

\* emitLoopCommon up to the statements of the body: max_trip_count is the
\* literal of range(<literal>), cond the condition of a while loop, itr_ident
\* the target of a for loop
emitLoopCommon(c, max_trip_count, cond, itr_ident) ==
  LET outer == c.frames[top(c)].b
  IN Let(InsertNode(c, outer, "prim::Loop", <<>>, <<>>, <<>>), LAMBDA nd :
       Let(IF max_trip_count # None THEN emitConst(nd.c, max_trip_count[1]) ELSE materializeIntConstant(nd.c, INT64_MAX), LAMBDA max_trip_count_val :
         Let(IF cond # None THEN emitCond(max_trip_count_val.c, cond[1], Before(outer, nd.n)) ELSE insertConstant(max_trip_count_val.c, Before(outer, nd.n), "bool", 1), LAMBDA cond_val :
           IF cond_val.c.status # "ok" THEN cond_val.c
           ELSE Let(addBlock([cond_val.c EXCEPT !.nodes[nd.n].inputs = <<max_trip_count_val.v, cond_val.v>>], nd.n), LAMBDA body_block :
             LET trip_count == Len(body_block.c.vtype) + 1
             IN Let(pushFrame([body_block.c EXCEPT !.vtype = Append(@, "int"), !.blocks[body_block.b].inputs = <<trip_count>>], body_block.b), LAMBDA c1 :
                  Let(IF itr_ident # None THEN setVar(c1, top(c1), itr_ident[1], trip_count) ELSE c1, LAMBDA c2 :
                    IF c2.status # "ok" THEN c2 ELSE [c2 EXCEPT !.ctl = Append(@, Ctl("loop", nd.n, "body", NoFrame, cond, ""))]))))))

\* "Add block outputs to correspond to each captured input"
RECURSIVE registerCaptured(_, _, _)
registerCaptured(c, frame, xs) ==
  IF xs = <<>> THEN c
  ELSE Let([c EXCEPT !.blocks[frame.b].outputs = Append(@, asSimple(frame.value_table[Head(xs)]))], LAMBDA c1 : registerCaptured(c1, frame, Tail(xs)))

\* a variant of registerCarried that gives an output of the node the type of
\* the value at the end of the body
RECURSIVE registerCarriedBodyType(_, _, _, _)
registerCarriedBodyType(c, n, frame, i) ==
  IF i > Len(frame.captured_inputs) \/ c.status # "ok" THEN c
  ELSE LET x == frame.captured_inputs[i]
       IN Let(getVar(c, x), LAMBDA g :
            LET typ == g.c.vtype[g.c.blocks[frame.b].outputs[i + 1]]
                out == Len(g.c.vtype) + 1
            IN IF g.c.status # "ok" THEN g.c
               ELSE Let([g.c EXCEPT !.nodes[n].inputs = Append(@, g.v), !.nodes[n].outputs = Append(@, out), !.vtype = Append(@, typ)], LAMBDA c1 :
                      Let(setVar(c1, top(c1), x, out), LAMBDA c2 : registerCarriedBodyType(c2, n, frame, i + 1))))

\* "register node inputs/outputs for the true loop carried deps", from captured_inputs[i] on
RECURSIVE registerCarried(_, _, _, _)
registerCarried(c, n, frame, i) ==
  IF i > Len(frame.captured_inputs) \/ c.status # "ok" THEN c
  ELSE LET x == frame.captured_inputs[i]
       IN Let(getVar(c, x), LAMBDA g :
            LET typ == g.c.vtype[g.c.blocks[frame.b].inputs[i + 1]]
                out == Len(g.c.vtype) + 1
            IN IF g.c.status # "ok" THEN g.c
               ELSE Let([g.c EXCEPT !.nodes[n].inputs = Append(@, g.v), !.nodes[n].outputs = Append(@, out), !.vtype = Append(@, typ)], LAMBDA c1 :
                      Let(setVar(c1, top(c1), x, out), LAMBDA c2 : registerCarried(c2, n, frame, i + 1))))

\* emitLoopCommon after the statements of the body, up to deleteExtraInputs:
\* the condition is lowered again and is the first Block output, the body
\* frame is popped and every captured input gets its Block output
emitLoopBodyOutputs(c) ==
  LET k == Last(c.ctl)
      b == c.frames[top(c)].b
  IN Let(IF k.cond # None THEN emitCond(c, k.cond[1], AtEnd(b)) ELSE insertConstant(c, AtEnd(b), "bool", 1), LAMBDA body_cond_value :
       IF body_cond_value.c.status # "ok" THEN [c |-> body_cond_value.c, frame |-> Last(body_cond_value.c.frames)]
       ELSE LET body_frame == Last(body_cond_value.c.frames)
            IN Let(popFrame([body_cond_value.c EXCEPT !.blocks[b].outputs = Append(@, body_cond_value.v)]), LAMBDA c1 :
                 [c |-> registerCaptured(c1, body_frame, body_frame.captured_inputs), frame |-> body_frame]))

\* emitLoopCommon after the statements of the body
emitLoopCommonEnd(c) ==
  LET k == Last(c.ctl)
  IN Let(emitLoopBodyOutputs(c), LAMBDA o :
       IF o.c.status # "ok" THEN o.c
       ELSE Let(deleteExtraInputs(o.c, o.frame), LAMBDA d :
              IF d.c.status # "ok" THEN d.c
              ELSE Let(registerCarried(d.c, k.n, d.frame, 1), LAMBDA c3 :
                IF c3.status # "ok" THEN c3 ELSE [c3 EXCEPT !.ctl = SubSeq(@, 1, Len(@) - 1)])))

\* ------------------------------------------------------------ statements
\* a statement of a body: op names the kind of statement, the other fields
\* are its identifiers and literals
Stmt(op, x, y, lit) == [op |-> op, x |-> x, y |-> y, lit |-> lit]

\* emitStatements on one simple statement
emitStatement(c, s) ==
  CASE s.op = "AssignConst" -> emitAssignment(c, s.x, "const", s.lit)
    [] s.op = "AssignVar" -> emitAssignment(c, s.x, "var", s.y)
    [] s.op = "AssignAdd" -> emitAssignment(c, s.x, "add", s.y)
    [] OTHER -> emitExprStmt(c, "var", s.y)

RECURSIVE emitStatements(_, _)
emitStatements(c, stmts) ==
  IF stmts = <<>> \/ c.status # "ok" THEN c
  ELSE Let(emitStatement(c, Head(stmts)), LAMBDA c1 : emitStatements(c1, Tail(stmts)))

\* the else part of an if statement: for emitIfElseBlocks the false branch
\* starts, for an if that emitIf decided statically nothing is emitted
emitElse(c) ==
  IF Last(c.ctl).h = "if" THEN emitIfElseBlocksFalse(c)
  ELSE [c EXCEPT !.ctl[Len(c.ctl)].phase = "false"]

\* a variant of the end of an if statement over mutated_variables_unordered
emitEndIfUnordered(c, order) ==
  IF Last(c.ctl).h = "if"
  THEN LET k == Last(c.ctl)
           save_true == k.saved[1]
           save_false == Last(c.frames)
       IN Let([popFrame(c) EXCEPT !.ctl = SubSeq(@, 1, Len(@) - 1)], LAMBDA c1 : registerOutputs(c1, k.n, save_true, save_false, mutated_variables_unordered(c1, save_true, save_false, order)))
  ELSE [c EXCEPT !.ctl = SubSeq(@, 1, Len(@) - 1)]

\* the end of an if statement
emitEndIf(c, order) ==
  IF Last(c.ctl).h = "if" THEN emitIfElseBlocksJoin(c, order)
  ELSE [c EXCEPT !.ctl = SubSeq(@, 1, Len(@) - 1)]

\* ------------------------------------------------------------ unrolled for
\* SimpleValue::asTuple: the elements of a tuple, the size_hint elements of a
\* list; any other sugared value cannot be used as a tuple
asTuple(c, sv, size_hint) ==
  IF asSimple(sv) = 0 THEN [c |-> Throw(c, "CannotBeUsedAsTuple", NoMsg), instances |-> <<>>]
  ELSE IF c.vtype[asSimple(sv)] \in AllTupleTypes
  THEN Let(createTupleUnpack(c, CurrentPoint(c), asSimple(sv)), LAMBDA r : [c |-> r.c, instances |-> r.outs])
  ELSE IF c.vtype[asSimple(sv)] \in ListTypes
  THEN IF size_hint = None THEN [c |-> Throw(c, "CannotInferListSize", NoMsg), instances |-> <<>>]
       ELSE Let(InsertAtPoint(c, CurrentPoint(c), "prim::ListUnpack", <<asSimple(sv)>>, [i \in 1..size_hint[1] |-> getElementType(c.vtype[asSimple(sv)])], <<>>), LAMBDA r : [c |-> r.c, instances |-> r.outs])
  ELSE [c |-> Throw(c, "CannotBeUsedAsTuple", NoMsg), instances |-> <<>>]

\* a variant of the loop over the instances that stops after the first one
emitInstancesFirst(c, target_name, instances, stmts) ==
  IF instances = <<>> \/ c.status # "ok" THEN c
  ELSE Let(setSugaredVar(c, top(c), target_name, SimpleValue(Head(instances))), LAMBDA c1 : emitStatements(c1, stmts))

\* `for (const auto& inst : instances)` of emitFor
RECURSIVE emitInstances(_, _, _, _)
emitInstances(c, target_name, instances, stmts) ==
  IF instances = <<>> \/ c.status # "ok" THEN c
  ELSE Let(setSugaredVar(c, top(c), target_name, SimpleValue(Head(instances))), LAMBDA c1 :
         Let(emitStatements(c1, stmts), LAMBDA c2 : emitInstances(c2, target_name, Tail(instances), stmts)))

\* `for (const auto & n : environment_stack->definedVariables())` of emitFor
RECURSIVE promoteDefined(_, _)
promoteDefined(c, ns) ==
  IF ns = <<>> \/ c.status # "ok" THEN c
  ELSE IF findInParentFrame(c, top(c), Head(ns)) = NoSV THEN promoteDefined(c, Tail(ns))
  ELSE Let(getVar(c, Head(ns)), LAMBDA g :
         IF g.c.status # "ok" THEN g.c
         ELSE Let(setVar(g.c, top(g.c) - 1, Head(ns), g.v), LAMBDA c1 : promoteDefined(c1, Tail(ns))))

\* emitFor on `for target in itr: stmts`, itr not a range(...) call
emitFor(c, target, itr, stmts, order) ==
  Let(getSugaredVar(c, itr), LAMBDA sv :
    IF sv.c.status # "ok" THEN sv.c
    ELSE Let(asTuple(sv.c, sv.r, None), LAMBDA t :
      IF t.c.status # "ok" THEN t.c
      ELSE Let(pushFrame(t.c, t.c.frames[top(t.c)].b), LAMBDA c1 :
        Let(emitInstances(c1, target, t.instances, stmts), LAMBDA c2 :
          IF c2.status # "ok" THEN c2
          ELSE Let(promoteDefined(c2, definedVariables(Last(c2.frames), order)), LAMBDA c3 :
                 IF c3.status # "ok" THEN c3 ELSE popFrame(c3))))))

\* ------------------------------------------------------------ tuple assignment
\* an assignee of a tuple-literal target: a Var, or a Starred around a Var
Target(name, starred) == [name |-> name, starred |-> starred]
num_starred(lhs) == Cardinality({i \in 1..Len(lhs) : lhs[i].starred})
num_normal_assign(lhs) == Cardinality({i \in 1..Len(lhs) : ~lhs[i].starred})

\* calcNumStarredUnpack: the error it throws, if any, and the number of
\* Starred assignees as the bool that emitTupleAssign stores it in
calcNumStarredUnpack(c, lhs) ==
  IF num_starred(lhs) > 1 THEN [c |-> Throw(c, "OnlyOneStarred", NoMsg), r |-> FALSE]
  ELSE IF num_starred(lhs) > 0 /\ num_normal_assign(lhs) = 0 THEN [c |-> Throw(c, "StarredAlone", NoMsg), r |-> FALSE]
  ELSE [c |-> c, r |-> num_starred(lhs) # 0]

\* `for (auto assignee : tl.inputs())` of emitTupleAssign from assignee k on,
\* i outputs consumed
RECURSIVE assignTargets(_, _, _, _, _, _)
assignTargets(c, lhs, k, outputs, i, n_binders) ==
  IF k > Len(lhs) \/ c.status # "ok" THEN c
  ELSE IF ~lhs[k].starred
  THEN Let(setSugaredVar(c, top(c), lhs[k].name, SimpleValue(outputs[i + 1])), LAMBDA c1 : assignTargets(c1, lhs, k + 1, outputs, i + 1, n_binders))
  ELSE LET n_matched == Len(outputs) - n_binders
           values == SubSeq(outputs, i + 1, i + n_matched)
       IN Let(InsertAtPoint(c, CurrentPoint(c), "prim::TupleConstruct", values, <<TupleOf([j \in 1..n_matched |-> c.vtype[values[j]]])>>, <<>>), LAMBDA tup :
            Let(setVar(tup.c, top(tup.c), lhs[k].name, tup.outs[1]), LAMBDA c1 : assignTargets(c1, lhs, k + 1, outputs, i + n_matched, n_binders)))

\* a variant of emitTupleAssign without the check for values left over
emitTupleAssignLenient(c, lhs, rhs) ==
  Let(calcNumStarredUnpack(c, lhs), LAMBDA starred :
    IF starred.c.status # "ok" THEN starred.c
    ELSE LET starred_unpack == starred.r
             n_binders == IF starred_unpack THEN Len(lhs) - 1 ELSE Len(lhs)
         IN Let(emitSugaredExpr(c, "var", rhs), LAMBDA output :
              IF output.c.status # "ok" THEN output.c
              ELSE Let(asTuple(output.c, output.r, IF starred_unpack THEN None ELSE Some(n_binders)), LAMBDA outputs :
                IF outputs.c.status # "ok" THEN outputs.c
                ELSE IF Len(outputs.instances) < n_binders THEN Throw(outputs.c, "TooFewValues", <<n_binders, Len(outputs.instances)>>)
                ELSE assignTargets(outputs.c, lhs, 1, outputs.instances, 0, n_binders))))

\* emitTupleAssign on `lhs = rhs`, rhs a variable
emitTupleAssign(c, lhs, rhs) ==
  Let(calcNumStarredUnpack(c, lhs), LAMBDA starred :
    IF starred.c.status # "ok" THEN starred.c
    ELSE LET starred_unpack == starred.r
             n_binders == IF starred_unpack THEN Len(lhs) - 1 ELSE Len(lhs)
         IN Let(emitSugaredExpr(c, "var", rhs), LAMBDA output :
              IF output.c.status # "ok" THEN output.c
              ELSE Let(asTuple(output.c, output.r, IF starred_unpack THEN None ELSE Some(n_binders)), LAMBDA outputs :
                IF outputs.c.status # "ok" THEN outputs.c
                ELSE IF Len(outputs.instances) < n_binders THEN Throw(outputs.c, "TooFewValues", <<n_binders, Len(outputs.instances)>>)
                ELSE IF Len(outputs.instances) > n_binders /\ ~starred_unpack THEN Throw(outputs.c, "TooManyValues", <<n_binders, Len(outputs.instances)>>)
                ELSE assignTargets(outputs.c, lhs, 1, outputs.instances, 0, n_binders))))

\* ------------------------------------------------------------ and / or
\* the closures emitIfExpr is given: one that returns a value lowered already,
\* one that lowers a condition by emitCond when it is called
ValueExpr(v) == [k |-> "value", v |-> v, cond |-> ""]
CondExpr(cond) == [k |-> "cond", v |-> 0, cond |-> cond]
\* closures that lower a variable or a literal by emitExpr when they are called
VarExpr(name) == [k |-> "var", v |-> 0, cond |-> name]
LitExpr(lit) == [k |-> IF lit.fp THEN "fp" ELSE "int", v |-> lit.val, cond |-> ""]
callExpr(c, b, expr_value) ==
  CASE expr_value.k = "value" -> [c |-> c, v |-> expr_value.v]
    [] expr_value.k = "cond" -> emitCond(c, expr_value.cond, AtEnd(b))
    [] expr_value.k = "var" -> getVar(c, expr_value.cond)
    [] expr_value.k = "fp" -> emitConst(c, FpLit(expr_value.v))
    [] OTHER -> emitConst(c, IntLit(expr_value.v))

\* emit_if_expr of emitIfExpr: the closure is called with Block b as the
\* innermost frame and insertion point, its value is the output of b
emit_if_expr(c, b, expr_value) ==
  Let(pushFrame(c, b), LAMBDA c1 :
    Let(callExpr(c1, b, expr_value), LAMBDA out_val :
      IF out_val.c.status # "ok" THEN out_val.c
      ELSE popFrame([out_val.c EXCEPT !.blocks[b].outputs = Append(@, out_val.v)])))

\* a variant of emitIfExpr that does not compare the types of the branches
emitIfExprUnchecked(c, cond_value, true_expr, false_expr) ==
  Let(InsertAtPoint(c, CurrentPoint(c), "prim::If", <<cond_value>>, <<>>, <<>>), LAMBDA n :
    Let(addBlock(n.c, n.n), LAMBDA true_block :
      Let(addBlock(true_block.c, n.n), LAMBDA false_block :
        Let(emit_if_expr(false_block.c, true_block.b, true_expr), LAMBDA c1 :
          IF c1.status # "ok" THEN [c |-> c1, v |-> 0]
          ELSE Let(emit_if_expr(c1, false_block.b, false_expr), LAMBDA c2 :
            IF c2.status # "ok" THEN [c |-> c2, v |-> 0]
            ELSE LET true_type == unshapedType(c2.vtype[c2.blocks[true_block.b].outputs[1]])
                     expr_value == Len(c2.vtype) + 1
                 IN [c |-> [c2 EXCEPT !.vtype = Append(@, true_type), !.nodes[n.n].outputs = Append(@, expr_value)], v |-> expr_value])))))

emitIfExpr(c, cond_value, true_expr, false_expr) ==
  Let(InsertAtPoint(c, CurrentPoint(c), "prim::If", <<cond_value>>, <<>>, <<>>), LAMBDA n :
    Let(addBlock(n.c, n.n), LAMBDA true_block :
      Let(addBlock(true_block.c, n.n), LAMBDA false_block :
        Let(emit_if_expr(false_block.c, true_block.b, true_expr), LAMBDA c1 :
          IF c1.status # "ok" THEN [c |-> c1, v |-> 0]
          ELSE Let(emit_if_expr(c1, false_block.b, false_expr), LAMBDA c2 :
            IF c2.status # "ok" THEN [c |-> c2, v |-> 0]
            ELSE LET true_type == unshapedType(c2.vtype[c2.blocks[true_block.b].outputs[1]])
                     false_type == unshapedType(c2.vtype[c2.blocks[false_block.b].outputs[1]])
                     expr_value == Len(c2.vtype) + 1
                 IN IF true_type # false_type THEN [c |-> Throw(c2, "IfExprTypeMismatch", <<true_type, false_type>>), v |-> 0]
                    ELSE [c |-> [c2 EXCEPT !.vtype = Append(@, true_type), !.nodes[n.n].outputs = Append(@, expr_value)], v |-> expr_value])))))

\* a variant of emitShortCircuitIf that lowers both operands before the node
emitShortCircuitIfEager(c, first_expr, second_expr, is_or) ==
  Let(emitCond(c, first_expr, CurrentPoint(c)), LAMBDA first_value :
    IF first_value.c.status # "ok" THEN first_value
    ELSE Let(emitCond(first_value.c, second_expr, CurrentPoint(c)), LAMBDA second_value :
      IF second_value.c.status # "ok" THEN second_value
      ELSE IF is_or THEN emitIfExpr(second_value.c, first_value.v, ValueExpr(first_value.v), ValueExpr(second_value.v))
      ELSE emitIfExpr(second_value.c, first_value.v, ValueExpr(second_value.v), ValueExpr(first_value.v))))

emitShortCircuitIf(c, first_expr, second_expr, is_or) ==
  Let(emitCond(c, first_expr, CurrentPoint(c)), LAMBDA first_value :
    IF first_value.c.status # "ok" THEN first_value
    ELSE IF is_or THEN emitIfExpr(first_value.c, first_value.v, ValueExpr(first_value.v), CondExpr(second_expr))
    ELSE emitIfExpr(first_value.c, first_value.v, CondExpr(second_expr), ValueExpr(first_value.v)))

\* emitTernaryIf on `true_expr if cond else false_expr`, as an expression statement
emitTernaryIf(c, cond, true_expr, false_expr) ==
  Let(emitCond(c, cond, CurrentPoint(c)), LAMBDA cond_value :
    IF cond_value.c.status # "ok" THEN cond_value
    ELSE emitIfExpr(cond_value.c, cond_value.v, true_expr, false_expr))

\* emitRaise: the message constant and the prim::RaiseException node
emitRaise(c) ==
  Let(InsertAtPoint(c, CurrentPoint(c), "prim::Constant", <<>>, <<"string">>, <<"Exception">>), LAMBDA string_input :
    InsertAtPoint(string_input.c, CurrentPoint(string_input.c), "prim::RaiseException", <<string_input.outs[1]>>, <<>>, <<>>).c)

\* emitAssert on `assert test`
emitAssert(c, test) ==
  Let(emitCond(c, test, CurrentPoint(c)), LAMBDA cond_value :
    IF cond_value.c.status # "ok" THEN cond_value.c
    ELSE Let(InsertAtPoint(cond_value.c, CurrentPoint(cond_value.c), "prim::If", <<cond_value.v>>, <<>>, <<>>), LAMBDA n :
      Let(addBlock(n.c, n.n), LAMBDA true_block :
        Let(addBlock(true_block.c, n.n), LAMBDA false_block :
          popFrame(emitRaise(pushFrame(false_block.c, false_block.b)))))))

\* ------------------------------------------------------------ fork
\* FutureType::create
FutureType(t) ==
  CASE t = "int" -> "Future(int)" [] t = "float" -> "Future(float)" [] t = "number" -> "Future(number)" [] t = "bool" -> "Future(bool)"
    [] t = "Tensor" -> "Future(Tensor)" [] t = "int[]" -> "Future(int[])" [] OTHER -> "Future(tuple)"

\* std::make_shared<Graph>(): a graph with values of its own, numbered from 1
NewGraph == [vtype |-> <<>>, inputs |-> <<>>, nodes |-> <<>>, outputs |-> <<>>]

\* the cloning of body_block into forked_graph in progress: uncaptures_map of
\* emitForkExpr and local_map of Block::cloneFrom as sequences of pairs
\* <<value, its clone>>, and the inputs added to fork_node so far
NewClone == [g |-> NewGraph, uncaptures_map |-> <<>>, local_map |-> <<>>, fork_inputs |-> <<>>]
lookup(map, v) == IF \E i \in 1..Len(map) : map[i][1] = v THEN map[CHOOSE i \in 1..Len(map) : map[i][1] = v][2] ELSE 0

\* a variant of env that adds an input at every use
envEveryUse(c, k, v) ==
  LET new == Len(k.g.vtype) + 1
  IN [k |-> [k EXCEPT !.g.vtype = Append(@, c.vtype[v]), !.g.inputs = Append(@, new), !.uncaptures_map = Append(@, <<v, new>>), !.fork_inputs = Append(@, v)], r |-> new]

\* the lambda env of emitForkExpr: a value of the owning graph seen for the
\* first time becomes an input of forked_graph and of fork_node
env(c, k, v) ==
  IF lookup(k.uncaptures_map, v) # 0 THEN [k |-> k, r |-> lookup(k.uncaptures_map, v)]
  ELSE LET new == Len(k.g.vtype) + 1
       IN [k |-> [k EXCEPT !.g.vtype = Append(@, c.vtype[v]), !.g.inputs = Append(@, new), !.uncaptures_map = Append(@, <<v, new>>), !.fork_inputs = Append(@, v)], r |-> new]

\* outer_map of Block::cloneFrom: the values of the block itself first
outer_map(c, k, v) == IF lookup(k.local_map, v) # 0 THEN [k |-> k, r |-> lookup(k.local_map, v)] ELSE env(c, k, v)

\* the values vs through outer_map, from left to right
RECURSIVE mapValues(_, _, _, _)
mapValues(c, k, vs, done) ==
  IF vs = <<>> THEN [k |-> k, rs |-> done]
  ELSE Let(outer_map(c, k, Head(vs)), LAMBDA m : mapValues(c, m.k, Tail(vs), Append(done, m.r)))

\* createClone of node n appended to forked_graph; its outputs join local_map
cloneNode(c, k, n) ==
  Let(mapValues(c, k, c.nodes[n].inputs, <<>>), LAMBDA ins :
    LET base == Len(ins.k.g.vtype)
        outs == [i \in 1..Len(c.nodes[n].outputs) |-> base + i]
    IN [ins.k EXCEPT !.g.vtype = @ \o [i \in 1..Len(outs) |-> c.vtype[c.nodes[n].outputs[i]]],
                     !.g.nodes = Append(@, [kind |-> c.nodes[n].kind, inputs |-> ins.rs, outputs |-> outs, attr |-> c.nodes[n].attr]),
                     !.local_map = @ \o [i \in 1..Len(outs) |-> <<c.nodes[n].outputs[i], outs[i]>>]])

RECURSIVE cloneNodes(_, _, _)
cloneNodes(c, k, ns) == IF ns = <<>> THEN k ELSE Let(cloneNode(c, k, Head(ns)), LAMBDA k1 : cloneNodes(c, k1, Tail(ns)))

\* forked_graph->block()->cloneFrom(body_block, env): the nodes in order, then
\* the outputs (a fork body has no block inputs and no nested blocks)
cloneFrom(c, b) ==
  Let(cloneNodes(c, NewClone, c.blocks[b].nodes), LAMBDA k :
    Let(mapValues(c, k, c.blocks[b].outputs, <<>>), LAMBDA outs : [outs.k EXCEPT !.g.outputs = outs.rs]))

\* fork_node->eraseBlock(0): the block and its nodes are destroyed
eraseBlock(c, n) ==
  LET b == c.nodes[n].blocks[1]
      gone == Range(c.blocks[b].nodes)
  IN [c EXCEPT !.nodes = [i \in 1..Len(c.nodes) |-> IF i \in gone THEN NewNode("destroyed", <<>>, c.nodes[i].outputs, <<>>) ELSE IF i = n THEN [c.nodes[i] EXCEPT !.blocks = <<>>] ELSE c.nodes[i]],
                !.blocks[b] = NewBlock(0)]

\* emitForkExpr on the inputs and attributes that emitApplyExpr lowered; the
\* callable forked is a builtin function with the overloads variants
emitForkExpr(c, variants, inputs, attributes) ==
  Let(InsertAtPoint(c, CurrentPoint(c), "prim::fork", <<>>, <<"">>, <<>>), LAMBDA fork_node :
    Let(addBlock(fork_node.c, fork_node.n), LAMBDA body_block :
      Let(emitBuiltinCall(body_block.c, AtEnd(body_block.b), "f", variants, <<>>, None, inputs, attributes, TRUE), LAMBDA fn_simple_output :
        IF fn_simple_output.c.status # "ok" THEN [c |-> fn_simple_output.c, r |-> NoSV]
        ELSE LET node_output == fork_node.outs[1]
             IN Let([fn_simple_output.c EXCEPT !.blocks[body_block.b].outputs = Append(@, fn_simple_output.v), !.vtype[node_output] = FutureType(fn_simple_output.c.vtype[fn_simple_output.v])], LAMBDA c1 :
                  Let(cloneFrom(c1, body_block.b), LAMBDA k :
                    Let([c1 EXCEPT !.nodes[fork_node.n].inputs = k.fork_inputs, !.nodes[fork_node.n].attr = <<k.g>>], LAMBDA c2 :
                      [c |-> eraseBlock(c2, fork_node.n), r |-> SimpleValue(node_output)]))))))

\* emitApplyExpr on `fork(f, args, name = value, ..)` as an expression statement
emitForkStmt(c, variants, args, kwargs) ==
  Let(getNamedValues(c, args \o [i \in 1..Len(kwargs) |-> kwargs[i].v], 1, <<>>), LAMBDA a :
    IF a.c.status # "ok" THEN a.c
    ELSE LET inputs == SubSeq(a.vs, 1, Len(args))
             attributes == [i \in 1..Len(kwargs) |-> NamedValue(kwargs[i].name, a.vs[Len(args) + i])]
         IN emitForkExpr(a.c, variants, inputs, attributes).c)

\* ------------------------------------------------------------ the compilation
\* frames .. ctl: the compiler (Environment stack, Graph, constant tables,
\*                the error thrown, the handlers in progress)
\* body:          the statement parts compiled so far
\* rest:          how many statement parts the body still has at most
\* grammar:       the identifiers and the kinds of statement of the body
\* twin:          a second compilation of the same body into a fresh Graph,
\*                when two are run
VARIABLES frames, blocks, nodes, vtype, integral_constants, fp_constants, status, errmsg, ctl, body, rest, grammar, twin

vars == <<frames, blocks, nodes, vtype, integral_constants, fp_constants, status, errmsg, ctl, body, rest, grammar, twin>>

St == [frames |-> frames, blocks |-> blocks, nodes |-> nodes, vtype |-> vtype, integral_constants |-> integral_constants, fp_constants |-> fp_constants, status |-> status, errmsg |-> errmsg, ctl |-> ctl]

StNext == [frames |-> frames', blocks |-> blocks', nodes |-> nodes', vtype |-> vtype', integral_constants |-> integral_constants', fp_constants |-> fp_constants', status |-> status', errmsg |-> errmsg', ctl |-> ctl']

Becomes(c) ==
  /\ frames' = c.frames
  /\ blocks' = c.blocks
  /\ nodes' = c.nodes
  /\ vtype' = c.vtype
  /\ integral_constants' = c.integral_constants
  /\ fp_constants' = c.fp_constants
  /\ status' = c.status
  /\ errmsg' = c.errmsg
  /\ ctl' = c.ctl

Starts(c) ==
  /\ frames = c.frames
  /\ blocks = c.blocks
  /\ nodes = c.nodes
  /\ vtype = c.vtype
  /\ integral_constants = c.integral_constants
  /\ fp_constants = c.fp_constants
  /\ status = c.status
  /\ errmsg = c.errmsg
  /\ ctl = c.ctl

\* emitFormalArguments: a graph input and a binding in the root frame per parameter
RECURSIVE emitFormalArguments(_, _)
emitFormalArguments(c, params) ==
  IF params = <<>> THEN c
  ELSE LET new_input == Len(c.vtype) + 1
       IN Let([c EXCEPT !.vtype = Append(@, Head(params).type), !.blocks[1].inputs = Append(@, new_input)], LAMBDA c1 :
            Let(setVar(c1, 1, Head(params).name, new_input), LAMBDA c2 : emitFormalArguments(c2, Tail(params))))

Param(name, type) == [name |-> name, type |-> type]

\* the compiler is constructed on a function with parameters params whose body
\* has at most n statement parts over the identifiers ids and the statement
\* kinds ops; two: the body is compiled twice
Start(params, n, ids, ops, two) ==
  \E c \in {emitFormalArguments(EmptyCompile, params)} :
    /\ Starts(c)
    /\ body = <<>>
    /\ rest = n
    /\ grammar = [idents |-> ids, ops |-> ops]
    /\ twin = IF two THEN <<c>> ELSE <<>>

\* the compiler has compiled the statements stmts of the body into c and has
\* at most n statement parts to go
StartAfter(c, stmts, n, ids, ops) ==
  /\ Starts(c)
  /\ body = stmts
  /\ rest = n
  /\ grammar = [idents |-> ids, ops |-> ops]
  /\ twin = <<>>

\* the statement s is compiled by the handler H, in both compilations
Emit(s, H(_)) ==
  /\ body' = Append(body, s)
  /\ rest' = rest - 1
  /\ grammar' = grammar
  /\ \E c \in {H(St)} : Becomes(c)
  /\ twin' = [i \in 1..Len(twin) |-> H(twin[i])]

\* the current statement is one emitIf emits: it is not in the branch of a
\* statically decided if that emitIf leaves out
Live == IF ctl = <<>> THEN TRUE ELSE IF Last(ctl).h # "static" THEN TRUE ELSE Last(ctl).phase = Last(ctl).emit

CanEmit(op) == status = "ok" /\ rest > 0 /\ op \in grammar.ops /\ Live
CanOpen(op) == CanEmit(op) /\ Len(ctl) < MaxDepth

NoLit == IntLit(0)

\* x = <literal>
AssignConst ==
  /\ CanEmit("AssignConst")
  /\ \E x \in grammar.idents, lit \in Lits : Emit(Stmt("AssignConst", x, "", lit), LAMBDA c : emitStatement(c, Stmt("AssignConst", x, "", lit)))

\* x = y
AssignVar ==
  /\ CanEmit("AssignVar")
  /\ \E x \in grammar.idents, y \in grammar.idents : Emit(Stmt("AssignVar", x, y, NoLit), LAMBDA c : emitStatement(c, Stmt("AssignVar", x, y, NoLit)))

\* x = y for a name y that no frame binds: g is known to the resolver, u to nobody
FreeNames == {"g", "u"}
AssignFree ==
  /\ CanEmit("AssignFree")
  /\ \E x \in grammar.idents, y \in FreeNames : Emit(Stmt("AssignVar", x, y, NoLit), LAMBDA c : emitStatement(c, Stmt("AssignVar", x, y, NoLit)))

\* x = y + 1
AssignAdd ==
  /\ CanEmit("AssignAdd")
  /\ \E x \in grammar.idents, y \in grammar.idents : Emit(Stmt("AssignAdd", x, y, NoLit), LAMBDA c : emitStatement(c, Stmt("AssignAdd", x, y, NoLit)))

\* the expression statement `y`
ExprStmt ==
  /\ CanEmit("ExprStmt")
  /\ \E y \in grammar.idents : Emit(Stmt("ExprStmt", "", y, NoLit), LAMBDA c : emitStatement(c, Stmt("ExprStmt", "", y, NoLit)))

\* the expression statement `first or second` / `first and second`, each
\* operand True or a comparison `y < 3`
ShortCircuit ==
  /\ CanEmit("ShortCircuit")
  /\ \E is_or \in BOOLEAN, first \in {"True"} \cup grammar.idents, second \in {"True"} \cup grammar.idents :
       Emit(Stmt("ShortCircuit", first, second, is_or), LAMBDA c : emitShortCircuitIf(c, first, second, is_or).c)

\* if True:
If ==
  /\ CanOpen("If")
  /\ Emit(Stmt("If", "", "True", NoLit), LAMBDA c : emitIf(c, "True"))

\* if a is <rhs>:  /  if a is not <rhs>:
IfIs ==
  /\ CanOpen("IfIs")
  /\ \E kind \in {"TK_IS", "TK_ISNOT"}, rhs \in {"b", "None"} : Emit(Stmt(kind, "a", rhs, NoLit), LAMBDA c : emitIfIs(c, kind, "a", rhs))

\* else:
Else ==
  /\ status = "ok" /\ rest > 0 /\ "Else" \in grammar.ops
  /\ ctl # <<>> /\ Last(ctl).h \in {"if", "static"} /\ Last(ctl).phase = "true"
  /\ Emit(Stmt("Else", "", "", NoLit), LAMBDA c : emitElse(c))

\* the end of the if statement; the unordered maps of the two compilations
\* iterate in orders of their own
EndIf ==
  /\ status = "ok" /\ rest > 0 /\ "EndIf" \in grammar.ops
  /\ ctl # <<>> /\ Last(ctl).h \in {"if", "static"} /\ Last(ctl).phase = "false"
  /\ body' = Append(body, Stmt("EndIf", "", "", NoLit))
  /\ rest' = rest - 1
  /\ grammar' = grammar
  /\ \E order \in HashOrders(grammar.idents) : \E c \in {emitEndIf(St, order)} : Becomes(c)
  /\ \E order \in HashOrders(grammar.idents) : twin' = [i \in 1..Len(twin) |-> emitEndIf(twin[i], order)]

\* a statement in the branch that a statically decided if leaves out
Skip ==
  /\ status = "ok" /\ rest > 0 /\ "Skip" \in grammar.ops /\ ~Live
  /\ Emit(Stmt("Skip", "", "", NoLit), LAMBDA c : c)

\* while True:  /  while x < 3:
While ==
  /\ CanOpen("While")
  /\ \E cond \in {"True"} \cup grammar.idents : Emit(Stmt("While", "", cond, NoLit), LAMBDA c : emitLoopCommon(c, None, Some(cond), None))

\* for x in range(3):
ForRange ==
  /\ CanOpen("ForRange")
  /\ \E x \in grammar.idents : Emit(Stmt("ForRange", x, "", IntLit(3)), LAMBDA c : emitLoopCommon(c, Some(IntLit(3)), None, Some(x)))

\* the end of the loop body
EndLoop ==
  /\ CanEmit("EndLoop")
  /\ ctl # <<>> /\ Last(ctl).h = "loop"
  /\ Emit(Stmt("EndLoop", "", "", NoLit), LAMBDA c : emitLoopCommonEnd(c))

\* the bodies of the unrolled for loops
UnrollBodies(x, ids) == {<<>>} \cup {<<Stmt("AssignVar", y, x, NoLit)>> : y \in ids} \cup {<<Stmt("AssignAdd", "a", x, NoLit)>>} \cup {<<Stmt("AssignAdd", "a", "a", NoLit), Stmt("AssignAdd", "b", "b", NoLit)>>}

\* for x in t: <stmts>
ForIn ==
  /\ CanEmit("ForIn")
  /\ \E x \in grammar.idents : \E stmts \in UnrollBodies(x, grammar.idents) :
       /\ body' = Append(body, Stmt("ForIn", x, stmts, NoLit))
       /\ rest' = rest - 1
       /\ grammar' = grammar
       /\ \E order \in HashOrders(grammar.idents) : \E c \in {emitFor(St, x, "t", stmts, order)} : Becomes(c)
       /\ \E order \in HashOrders(grammar.idents) : twin' = [i \in 1..Len(twin) |-> emitFor(twin[i], x, "t", stmts, order)]

\* the schemas an operator symbol or a library function is registered with
CallSchemas == {Schema(11, <<"int">>, "int"), Schema(12, <<"Tensor">>, "Tensor"), Schema(13, <<"float", "int">>, "float")}
SchemaLists(n) == {<<>>} \cup {<<s>> : s \in CallSchemas} \cup (IF n < 2 THEN {} ELSE {p \in CallSchemas \X CallSchemas : p[1] # p[2]})
ArgLists == {<<"a">>, <<"b">>, <<"a", "b">>, <<"b", "a">>}

\* f(args), f an operator symbol with the overloads variants and the library
\* functions builtin_functions
Call ==
  /\ CanEmit("Call")
  /\ \E variants \in SchemaLists(2), builtin_functions \in SchemaLists(1), args \in ArgLists :
       Emit(Stmt("Call", variants, builtin_functions, args), LAMBDA c : emitCallStmt(c, variants, builtin_functions, args))

\* the schemas of the calls with a receiver and keyword arguments
IntArg(name) == Argument(name, "int", 0, None, FALSE)
ApplySchemas == {
  FunctionSchema(21, <<Argument("self", "Tensor", 0, None, FALSE), IntArg("x"), Argument("y", "int", 0, Some([type |-> "int", val |-> 0]), FALSE)>>, FALSE, "int"),
  FunctionSchema(22, <<IntArg("x"), Argument("k", "int", 0, None, TRUE)>>, FALSE, "int"),
  FunctionSchema(23, <<Argument("sizes", "int[]", 0, None, FALSE)>>, FALSE, "int"),
  FunctionSchema(24, <<Argument("sizes", "int[]", 0, None, FALSE), Argument("k", "int", 0, Some([type |-> "int", val |-> 0]), TRUE)>>, FALSE, "int"),
  FunctionSchema(25, <<Argument("sizes", "int[]", 2, None, FALSE)>>, FALSE, "int"),
  FunctionSchema(26, <<IntArg("x")>>, TRUE, "int"),
  FunctionSchema(27, <<Argument("sizes", "int[]", 0, None, FALSE), IntArg("y")>>, FALSE, "int"),
  FunctionSchema(28, <<Argument("x", "T1", 0, None, FALSE), Argument("y", "T1", 0, None, FALSE)>>, FALSE, "T1"),
  FunctionSchema(29, <<IntArg("x"), Argument("y", "T1", 0, None, FALSE)>>, FALSE, "T1")}
ApplySchema(id) == CHOOSE s \in ApplySchemas : s.id = id

\* the overloads of a call: one schema, or two in the order of their registration
ApplyVariants == {<<s>> : s \in ApplySchemas} \cup {<<ApplySchema(28), ApplySchema(29)>>, <<ApplySchema(27), ApplySchema(23)>>}
\* the positional and the keyword arguments of the calls
ApplyArgs == {<<>>, <<"a">>, <<"b">>, <<"t">>, <<"a", "b">>, <<"b", "a">>, <<"b", "b">>, <<"t", "a">>, <<"a", "b", "b">>}
Kwargs == {<<>>, <<NamedValue("k", "a")>>, <<NamedValue("x", "a")>>, <<NamedValue("z", "b")>>, <<NamedValue("k", "a"), NamedValue("x", "b")>>, <<NamedValue("k", "a"), NamedValue("k", "b")>>, <<NamedValue("self", "b")>>}

\* self.f(args, kwargs) / f(args, kwargs)
Apply ==
  /\ CanEmit("Apply")
  /\ \E variants \in ApplyVariants, self \in {None, Some("a")}, args \in ApplyArgs, kwargs \in Kwargs :
       Emit(Stmt("Apply", variants, [self |-> self, kwargs |-> kwargs], args), LAMBDA c : emitApplyStmt(c, variants, self, args, kwargs))

\* the index expressions of the subscripts
ConstIdx == {[k |-> "lit", v |-> k] : k \in 0..MaxIdx} \cup {[k |-> "neg", v |-> k] : k \in 1..MaxIdx}
IdxExprs == ConstIdx \cup {[k |-> "fp", v |-> 15], [k |-> "var", v |-> 0]}

\* t is bound to a tuple
IsTuple(c, t) == asSimple(findInAnyFrame(c, top(c), t)) # 0 /\ c.vtype[asSimple(findInAnyFrame(c, top(c), t))] \in TupleTypes

\* t[idx]
TupleIndex ==
  /\ CanEmit("TupleIndex") /\ IsTuple(St, "t")
  /\ \E idx \in IdxExprs : Emit(Stmt("TupleIndex", "t", idx, NoLit), LAMBDA c : emitSubscript(c, "t", idx))

\* t[begin:end]  /  t[begin:]
TupleSlice ==
  /\ CanEmit("TupleSlice") /\ IsTuple(St, "t")
  /\ \E begin \in ConstIdx, end \in {None} \cup {Some(e) : e \in ConstIdx} : Emit(Stmt("TupleSlice", "t", begin, end), LAMBDA c : emitSlice(c, "t", begin, end))

\* the tuple-literal targets of the assignments
TargetLists == {
  <<Target("a", FALSE)>>, <<Target("a", TRUE)>>,
  <<Target("a", FALSE), Target("b", FALSE)>>, <<Target("a", TRUE), Target("b", FALSE)>>, <<Target("a", FALSE), Target("b", TRUE)>>, <<Target("a", TRUE), Target("b", TRUE)>>,
  <<Target("a", FALSE), Target("b", FALSE), Target("t", FALSE)>>, <<Target("a", TRUE), Target("b", FALSE), Target("t", FALSE)>>,
  <<Target("a", FALSE), Target("b", TRUE), Target("t", FALSE)>>, <<Target("a", FALSE), Target("b", FALSE), Target("t", TRUE)>>,
  <<Target("a", TRUE), Target("b", FALSE), Target("t", TRUE)>>}

\* <targets> = y
TupleAssign ==
  /\ CanEmit("TupleAssign")
  /\ \E lhs \in TargetLists, y \in {"b", "t"} : Emit(Stmt("TupleAssign", lhs, y, NoLit), LAMBDA c : emitTupleAssign(c, lhs, y))

\* the overloads of the builtin functions that are forked
ForkVariants == {<<ApplySchema(22)>>, <<ApplySchema(23)>>, <<ApplySchema(24)>>, <<ApplySchema(27)>>, <<ApplySchema(28)>>, <<ApplySchema(28), ApplySchema(29)>>}

\* fork(f, args, kwargs)
Fork ==
  /\ CanEmit("Fork")
  /\ \E variants \in ForkVariants, args \in ApplyArgs, kwargs \in {<<>>, <<NamedValue("k", "a")>>, <<NamedValue("y", "b")>>} :
       Emit(Stmt("Fork", variants, kwargs, args), LAMBDA c : emitForkStmt(c, variants, args, kwargs))

\* the operands of the ternary expressions: a variable or a literal
Operand(o) == IF o = "0" THEN LitExpr(IntLit(0)) ELSE IF o = "1.5" THEN LitExpr(FpLit(15)) ELSE VarExpr(o)

\* the expression statement `x if cond else y`
Ternary ==
  /\ CanEmit("Ternary")
  /\ \E cond \in {"True", "a"}, xy \in {<<"0", "0">>, <<"0", "1.5">>, <<"a", "0">>, <<"a", "b">>, <<"1.5", "a">>} :
       Emit(Stmt("Ternary", xy[1], xy[2], cond), LAMBDA c : emitTernaryIf(c, cond, Operand(xy[1]), Operand(xy[2])).c)

\* assert test
AssertStmt ==
  /\ CanEmit("AssertStmt")
  /\ \E test \in {"True"} \cup grammar.idents : Emit(Stmt("AssertStmt", "", test, NoLit), LAMBDA c : emitAssert(c, test))


\* ------------------------------------------------------------ families of bodies
IfOps == {"AssignConst", "ExprStmt", "If", "Else", "EndIf"}
LoopOps == {"AssignConst", "AssignVar", "AssignAdd", "ExprStmt", "While", "ForRange", "EndLoop"}
IsOps == {"AssignConst", "IfIs", "Else", "EndIf", "Skip"}
CallOps == {"Call"}
TupleOps == {"TupleIndex", "TupleSlice"}
DetIfOps == {"AssignAdd", "If", "Else", "EndIf"}
DetOps == DetIfOps \cup {"While", "EndLoop", "ForIn"}
ApplyOps == {"Apply"}
EnvOps == {"AssignConst", "AssignVar", "AssignFree", "If", "Else", "EndIf"}
BoolOps == {"AssignConst", "ShortCircuit", "If", "Else", "EndIf"}
CondOps == {"AssignConst", "ShortCircuit", "Ternary", "AssertStmt", "If", "Else", "EndIf"}
UnpackOps == {"TupleAssign"}
ForkOps == {"Fork"}
ForOps == {"AssignConst", "ForIn", "If", "Else", "EndIf"}

\* if / else bodies
InitIf ==
  \/ \E params \in {<<>>, <<Param("a", "number")>>, <<Param("a", "int")>>} : Start(params, MaxIfStmts, {"a"}, IfOps, FALSE)
  \/ \E params \in {<<>>, <<Param("a", "number")>>, <<Param("a", "number"), Param("b", "int")>>} : Start(params, MaxIfStmts - 2, {"a", "b"}, IfOps, FALSE)

\* loop bodies
InitLoop ==
  \/ \E params \in {<<>>, <<Param("a", "int")>>, <<Param("a", "number")>>} : Start(params, MaxLoopStmts, {"a"}, LoopOps, FALSE)
  \/ \E params \in {<<Param("a", "int"), Param("b", "int")>>} : Start(params, MaxLoopStmts - 1, {"a", "b"}, LoopOps, FALSE)
  \/ \E params \in {<<Param("a", "int"), Param("b", "int")>>} : Start(params, MaxLoopStmts, {"a", "b"}, {"AssignVar", "While", "EndLoop"}, FALSE)

\* bodies of `is` / `is not` tests on the parameters a and b
InitIs ==
  \E ta \in {"None", "int?", "int"}, tb \in {"None", "int?", "int"} : Start(<<Param("a", ta), Param("b", tb)>>, MaxIsStmts, {"a"}, IsOps, FALSE)

\* bodies of calls on the parameters a and b
InitCall ==
  \E ta \in {"Tensor", "int", "float"}, tb \in {"Tensor", "int", "float"} : Start(<<Param("a", ta), Param("b", tb)>>, MaxCallStmts, {"a", "b"}, CallOps, FALSE)

\* bodies of subscripts of the tuple parameter t
InitTuple ==
  \E tt \in TupleTypes : Start(<<Param("b", "int"), Param("t", tt)>>, MaxTupleStmts, {"b"}, TupleOps, FALSE)

\* bodies compiled twice
InitDet ==
  \E tt \in {"(int)", "(int, float)"} :
    \/ Start(<<Param("a", "int"), Param("b", "int"), Param("t", tt)>>, MaxDetStmts, {"a", "b"}, DetIfOps, TRUE)
    \/ Start(<<Param("a", "int"), Param("b", "int"), Param("t", tt)>>, MaxDetStmts - 2, {"a", "b"}, DetOps, TRUE)

\* bodies with for loops over the tuple parameter t
InitFor ==
  \E ta \in {"number", "int"}, tt \in TupleTypes :
    \E params \in {<<Param("a", ta), Param("t", tt)>>, <<Param("a", ta), Param("b", "int"), Param("t", tt)>>} : Start(params, MaxForStmts, {"a", "b"}, ForOps, FALSE)

\* bodies with `or` and `and`
InitBool ==
  \E params \in {<<Param("a", "int")>>, <<Param("a", "float"), Param("b", "int")>>} : Start(params, MaxBoolStmts, {"a", "b"}, BoolOps, FALSE)

\* bodies of calls with a receiver and keyword arguments
InitApply ==
  \E ta \in {"int", "Tensor"}, tb \in {"int", "int[]"}, tt \in {"(int)", "(int, float)"} : Start(<<Param("a", ta), Param("b", tb), Param("t", tt)>>, MaxApplyStmts, {"a", "b"}, ApplyOps, FALSE)

\* bodies that bind and read names, print and names no frame binds among them
\* `if True: x = 0 else: x = 1.5`, and the compiler after it
MismatchOn(x) == <<Stmt("If", "", "True", NoLit), Stmt("AssignConst", x, "", IntLit(0)), Stmt("Else", "", "", NoLit), Stmt("AssignConst", x, "", FpLit(15)), Stmt("EndIf", "", "", NoLit)>>
emitMismatchOn(c, x) ==
  Let(emitIf(c, "True"), LAMBDA c1 :
    Let(emitStatement(c1, MismatchOn(x)[2]), LAMBDA c2 :
      Let(emitElse(c2), LAMBDA c3 :
        Let(emitStatement(c3, MismatchOn(x)[4]), LAMBDA c4 : emitEndIf(c4, Only(HashOrders({x})))))))
InitEnv ==
  \/ \E params \in {<<>>, <<Param("a", "int")>>, <<Param("a", "number")>>} : Start(params, MaxEnvStmts, {"a", "print"}, EnvOps, FALSE)
  \/ \E x \in {"a", "print"}, params \in {<<>>, <<Param("b", "int")>>} :
       \E c \in {emitMismatchOn(emitFormalArguments(EmptyCompile, params), x)} : StartAfter(c, MismatchOn(x), MaxEnvStmts - 1, {"a", "print"}, EnvOps)

\* bodies of tuple assignments from the parameters b and t
InitUnpack ==
  \E tb \in {"int", "int[]", "(int)"}, tt \in TupleTypes : Start(<<Param("b", tb), Param("t", tt)>>, MaxUnpackStmts, {"a", "b", "t"}, UnpackOps, FALSE)

\* bodies of forks of calls on the parameters a, b and t
InitFork ==
  \E ta \in {"int", "Tensor"}, tb \in {"int", "int[]"} : Start(<<Param("a", ta), Param("b", tb), Param("t", "(int)")>>, MaxForkStmts, {"a", "b"}, ForkOps, FALSE)

\* bodies with every statement and expression that emits a prim::If node
InitCond ==
  \/ \E params \in {<<Param("b", "int")>>, <<Param("a", "float"), Param("b", "int")>>} : Start(params, MaxCondStmts, {"a"}, CondOps, FALSE)
  \/ \E params \in {<<Param("b", "int")>>, <<Param("a", "number"), Param("b", "int")>>} : Start(params, MaxCondStmts + 3, {"a", "b"}, {"AssignConst", "If", "Else", "EndIf"}, FALSE)

Init == InitIf \/ InitLoop \/ InitIs \/ InitCall \/ InitTuple \/ InitDet \/ InitFor \/ InitBool \/ InitApply \/ InitEnv \/ InitUnpack \/ InitFork \/ InitCond

NextIf == AssignConst \/ ExprStmt \/ If \/ Else \/ EndIf
NextLoop == AssignConst \/ AssignVar \/ AssignAdd \/ ExprStmt \/ While \/ ForRange \/ EndLoop
NextIs == AssignConst \/ IfIs \/ Else \/ EndIf \/ Skip
NextCall == Call
NextTuple == TupleIndex \/ TupleSlice
NextDet == AssignAdd \/ If \/ Else \/ EndIf \/ While \/ EndLoop \/ ForIn
NextApply == Apply
NextEnv == AssignConst \/ AssignVar \/ AssignFree \/ If \/ Else \/ EndIf
NextBool == AssignConst \/ ShortCircuit \/ If \/ Else \/ EndIf
NextCond == AssignConst \/ ShortCircuit \/ Ternary \/ AssertStmt \/ If \/ Else \/ EndIf
NextFor == AssignConst \/ ForIn \/ If \/ Else \/ EndIf
NextUnpack == TupleAssign
NextFork == Fork

Next == AssignConst \/ AssignVar \/ AssignAdd \/ ExprStmt \/ ShortCircuit \/ If \/ IfIs \/ Else \/ EndIf \/ Skip \/ While \/ ForRange \/ EndLoop \/ ForIn \/ Call \/ Apply \/ AssignFree \/ TupleIndex \/ TupleSlice \/ TupleAssign \/ Fork \/ Ternary \/ AssertStmt

Spec == Init /\ [][Next]_vars
SpecIf == InitIf /\ [][NextIf]_vars
SpecLoop == InitLoop /\ [][NextLoop]_vars
SpecIs == InitIs /\ [][NextIs]_vars
SpecCall == InitCall /\ [][NextCall]_vars
SpecTuple == InitTuple /\ [][NextTuple]_vars
SpecDet == InitDet /\ [][NextDet]_vars
SpecEnv == InitEnv /\ [][NextEnv]_vars
SpecApply == InitApply /\ [][NextApply]_vars
SpecBool == InitBool /\ [][NextBool]_vars
SpecFor == InitFor /\ [][NextFor]_vars
SpecUnpack == InitUnpack /\ [][NextUnpack]_vars
SpecFork == InitFork /\ [][NextFork]_vars
SpecCond == InitCond /\ [][NextCond]_vars

\* ============================================================ properties
\* the statement the last step compiled
Done == Last(body')
\* the value and the type a parameter x was given by emitFormalArguments
ParamValue(x) == asSimple(frames[1].value_table[x])
ParamType(x) == vtype[ParamValue(x)]
\* the node created last
Newest(ns) == ns[Len(ns)]
KindCount(ns, kind) == Cardinality({i \in 1..Len(ns) : ns[i].kind = kind})

\* ------------------------------------------------------------ C1
\* the order of trial: the overloads as registered, then the library functions
TrialOrder(variants, fns) ==
  [i \in 1..(Len(variants) + Len(fns)) |-> IF i <= Len(variants) THEN [fn |-> FALSE, schema |-> variants[i]] ELSE [fn |-> TRUE, schema |-> fns[i - Len(variants)]]]

\* an actual type is accepted for a formal one; with conversions a tensor is
\* accepted for a number
ArgFits(formal, actual, conversions) ==
  isSubtypeOf(actual, formal) \/ (conversions /\ isSubtypeOf(formal, "number") /\ isSubtypeOf(actual, "Tensor"))

FullMatch(schema, types, conversions) ==
  Len(schema.args) = Len(types) /\ \A i \in 1..Len(types) : ArgFits(schema.args[i], types[i], conversions)

\* the first full match of a pass, 0 if the pass has none
FirstMatch(cands, types, conversions) ==
  LET M == {i \in 1..Len(cands) : FullMatch(cands[i].schema, types, conversions)}
  IN IF M = {} THEN 0 ELSE CHOOSE i \in M : \A j \in M : i <= j

\* the first full match of the earliest pass that has one
Selected(cands, types) ==
  IF FirstMatch(cands, types, FALSE) # 0 THEN FirstMatch(cands, types, FALSE) ELSE FirstMatch(cands, types, TRUE)

CallSelects(s) ==
  LET cands == TrialOrder(s.x, s.y)
      types == [i \in 1..Len(s.lit) |-> ParamType(s.lit[i])]
      sel == Selected(cands, types)
  IN IF sel = 0
     THEN /\ status' = (IF s.x = <<>> THEN "UnknownBuiltin" ELSE "CallNotValid")
          /\ KindCount(nodes', "f") = KindCount(nodes, "f") /\ KindCount(nodes', "inlined") = KindCount(nodes, "inlined")
     ELSE /\ status' = "ok"
          /\ Newest(nodes').kind = (IF cands[sel].fn THEN "inlined" ELSE "f")
          /\ Newest(nodes').attr = <<cands[sel].schema.id>>
          /\ KindCount(nodes', "f") + KindCount(nodes', "inlined") = KindCount(nodes, "f") + KindCount(nodes, "inlined") + 1
          /\ (FirstMatch(cands, types, FALSE) # 0 => KindCount(nodes', "prim::ImplicitTensorToNum") = KindCount(nodes, "prim::ImplicitTensorToNum"))

\* C1: a call resolved by emitBuiltinCall selects the first full match among
\* the overloads in registration order followed by the library functions in
\* registration order, in the pass without conversions if that pass has any
\* match and otherwise in the pass with conversions; a match without
\* conversion wins over an earlier candidate that needs a conversion, and the
\* pass with conversions does not run when the first pass has a match
C1_CallOrder == [][Done.op = "Call" => CallSelects(Done)]_vars

\* f(a) on a tensor a with the overloads f(int), f(Tensor) in that order: the
\* second, which needs no conversion, is the one emitted
C1_Witness ==
  /\ body # <<>> /\ Last(body).op = "Call" /\ status = "ok"
  /\ Len(Last(body).x) = 2 /\ Last(body).x[1].id = 11 /\ Last(body).x[2].id = 12
  /\ Last(body).lit = <<"a">> /\ ParamType("a") = "Tensor"
  /\ Newest(nodes).kind = "f" /\ Newest(nodes).attr = <<12>>

\* ------------------------------------------------------------ C8, C9
TupleLen == Len(elements(ParamType("t")))
\* the integer an index expression `k` or `-k` denotes
IdxConst(e) == IF e.k = "neg" THEN 0 - e.v ELSE e.v

PointIndex(s) ==
  IF s.y.k \in {"fp", "var"} THEN status' = "TupleIndexNotConstant"
  ELSE LET k == IdxConst(s.y)
       IN IF 0 - TupleLen <= k /\ k < TupleLen
          THEN /\ status' = "ok"
               /\ Newest(nodes').kind = "prim::TupleIndex"
               /\ Newest(nodes').inputs = <<ParamValue("t")>>
               /\ Newest(nodes').attr = <<IF k >= 0 THEN k ELSE k + TupleLen>>
          ELSE /\ status' = "TupleIndexOutOfRange"
               /\ KindCount(nodes', "prim::TupleIndex") = KindCount(nodes, "prim::TupleIndex")

\* C8: t[k] on a tuple of length L fails unless k is an integer constant; for
\* a constant k it emits a tuple index with k (k >= 0) or k + L (k < 0) when
\* -L <= k < L, and fails as out of range for every other constant k
C8_TupleIndex == [][Done.op = "TupleIndex" => PointIndex(Done)]_vars

\* t[-1] on a pair is the index 1
C8_Witness ==
  /\ body # <<>> /\ Last(body).op = "TupleIndex" /\ status = "ok"
  /\ Last(body).y = [k |-> "neg", v |-> 1] /\ TupleLen = 2
  /\ Newest(nodes).kind = "prim::TupleIndex" /\ Newest(nodes).attr = <<1>>

Adjusted(k) == IF k < 0 THEN k + TupleLen ELSE k
Clamped(k) == IF k < 0 THEN 0 ELSE IF k > TupleLen THEN TupleLen ELSE k

SliceBounds(s) ==
  LET b == IdxConst(s.y)
      e == IF s.lit = None THEN TupleLen ELSE IdxConst(s.lit[1])
  IN /\ status' = "ok"
     /\ Newest(nodes').kind = "prim::TupleSlice"
     /\ Newest(nodes').inputs = <<ParamValue("t")>>
     /\ Newest(nodes').attr = <<Clamped(Adjusted(b)), Clamped(Adjusted(e))>>
     /\ \A i \in 1..2 : 0 <= Newest(nodes').attr[i] /\ Newest(nodes').attr[i] <= TupleLen

\* C9: t[b:e] on a tuple of length L with integer constants b and e (e is L
\* when absent) never fails: each bound is increased by L if negative and then
\* clamped, so the tuple slice emitted has both bounds in 0..L
C9_TupleSlice == [][Done.op = "TupleSlice" => SliceBounds(Done)]_vars

\* t[-3:] on a pair, whose point index t[-3] is out of range, is the slice 0..2
C9_Witness ==
  /\ body # <<>> /\ Last(body).op = "TupleSlice" /\ status = "ok"
  /\ Last(body).y = [k |-> "neg", v |-> 3] /\ Last(body).lit = None /\ TupleLen = 2
  /\ Newest(nodes).kind = "prim::TupleSlice" /\ Newest(nodes).attr = <<0, 2>>

\* ------------------------------------------------------------ C5
\* the none-status of an operand of `is`, from its declared type
NoneStatus(t) == IF t = "None" THEN "ALWAYS" ELSE IF t = "int?" THEN "MAYBE" ELSE "NEVER"
\* the type of the value the name x is bound to
VarType(x) == vtype[asSimple(findInAnyFrame(St, Len(frames), x))]
OperandStatus(e) == IF e = "None" THEN "ALWAYS" ELSE NoneStatus(VarType(e))

\* the handler the last step entered
Entered == Last(ctl')

IsDispatch(s) ==
  LET l == OperandStatus(s.x)
      r == OperandStatus(s.y)
      is == s.op = "TK_IS"
  IN IF l = "ALWAYS" /\ r = "ALWAYS"
     THEN /\ status' = "ok" /\ Len(ctl') = Len(ctl) + 1
          /\ Entered.h = "static" /\ Entered.emit = (IF is THEN "true" ELSE "false")
          /\ KindCount(nodes', "prim::If") = KindCount(nodes, "prim::If")
          /\ frames' = frames
     ELSE IF (l = "ALWAYS" /\ r = "NEVER") \/ (l = "NEVER" /\ r = "ALWAYS")
     THEN /\ status' = "ok" /\ Len(ctl') = Len(ctl) + 1
          /\ Entered.h = "static" /\ Entered.emit = (IF is THEN "false" ELSE "true")
          /\ KindCount(nodes', "prim::If") = KindCount(nodes, "prim::If")
          /\ frames' = frames
     ELSE /\ status' = "ok" /\ Len(ctl') = Len(ctl) + 1
          /\ Entered.h = "if"
          /\ KindCount(nodes', "prim::If") = KindCount(nodes, "prim::If") + 1
          /\ nodes'[Entered.n].kind = "prim::If"
          /\ Len(nodes'[Entered.n].inputs) = 1
          /\ vtype'[nodes'[Entered.n].inputs[1]] = "bool"
          /\ nodes'[producer(StNext, nodes'[Entered.n].inputs[1])].kind = (IF is THEN "aten::__is__" ELSE "aten::__isnot__")
          /\ Len(nodes'[Entered.n].blocks) = 2

\* the statements of a statically decided if are emitted in one branch only
StaticBranch ==
  (ctl # <<>> /\ Last(ctl).h = "static" /\ Last(ctl).phase # Last(ctl).emit /\ Done.op \notin {"Else", "EndIf"})
    => (Done.op = "Skip" /\ nodes' = nodes /\ blocks' = blocks /\ frames' = frames /\ vtype' = vtype)

\* C5: for `if a is b` / `if a is not b`: when both operands are always None
\* only the true branch (is) or the false branch (is not) is emitted, when one
\* is always and the other never None only the false branch (is) or the true
\* branch (is not), both without a prim::If node; for every other pair of
\* statuses exactly one prim::If node is emitted, on the result of the
\* aten::__is__ / aten::__isnot__ call
C5_IsDispatch == [][(Done.op \in {"TK_IS", "TK_ISNOT"} => IsDispatch(Done)) /\ StaticBranch]_vars

\* `if a is not None: a = 0 else: ...` on a parameter a that is never None:
\* the assignment of the true branch is emitted without any prim::If node
C5_Witness ==
  /\ Len(body) = 2 /\ body[1].op = "TK_ISNOT" /\ body[1].y = "None" /\ body[2].op = "AssignConst"
  /\ vtype[blocks[1].inputs[1]] = "int" /\ status = "ok"
  /\ KindCount(nodes, "prim::If") = 0 /\ Last(ctl).h = "static" /\ Last(ctl).emit = "true"
  /\ frames[1].value_table["a"] # SimpleValue(blocks[1].inputs[1])

\* ------------------------------------------------------------ C2
\* the frame of the loop body that is about to end, and the frames around it
BodyFrame == Last(frames)
Enclosing(x) == findInAnyFrame(St, Len(frames) - 1, x)
\* the body-Block input that stands for the name x, 0 if x has none
OwnInput(x) ==
  IF x \in Range(BodyFrame.captured_inputs) THEN blocks[BodyFrame.b].inputs[1 + IndexOf(BodyFrame.captured_inputs, x)] ELSE 0

\* bound as a plain value around the loop, and bound at the end of the body to
\* a value that is not its own input
Reassigned(x) ==
  /\ asSimple(Enclosing(x)) # 0
  /\ BodyFrame.value_table[x] # NoSV
  /\ asSimple(BodyFrame.value_table[x]) # OwnInput(x)

LoopCarried ==
  LET n == Last(ctl).n
      B == BodyFrame.b
      carried == SortedNames({x \in Names : Reassigned(x)})
      outer == Len(frames')
  IN /\ Len(nodes'[n].outputs) = Len(carried)
     /\ Len(nodes'[n].inputs) = 2 + Len(carried)
     /\ Len(blocks'[B].inputs) = 1 + Len(carried)
     /\ Len(blocks'[B].outputs) = 1 + Len(carried)
     /\ blocks'[B].inputs[1] = blocks[B].inputs[1] /\ vtype'[blocks'[B].inputs[1]] = "int"
     /\ vtype'[blocks'[B].outputs[1]] = "bool"
     /\ \A k \in 1..Len(carried) :
          /\ nodes'[n].inputs[2 + k] = asSimple(Enclosing(carried[k]))
          /\ blocks'[B].inputs[1 + k] = OwnInput(carried[k])
          /\ blocks'[B].outputs[1 + k] # blocks'[B].inputs[1 + k]
          /\ frames'[outer].value_table[carried[k]] = SimpleValue(nodes'[n].outputs[k])
     /\ \A x \in Names \ Range(carried) :
          /\ asSimple(findInAnyFrame(StNext, outer, x)) \notin Range(nodes'[n].outputs)
          /\ outer = 1 => frames'[1].value_table[x] = frames[1].value_table[x]

\* C2: the loop-carried dependencies of the prim::Loop node of a while or
\* for-range loop are exactly the names bound as plain values around the loop
\* whose value at the end of the body is not their own Block input; a name the
\* body only reads is not carried and keeps its binding in the outer scope;
\* the trip count is a Block input of its own
C2_LoopCarried == [][(Done.op = "EndLoop" /\ status' = "ok") => LoopCarried]_vars

\* `a = 0; while a < 3: a = a + 1` has exactly one loop-carried dependency
C2_Witness ==
  /\ Len(body) = 4 /\ status = "ok" /\ blocks[1].inputs = <<>>
  /\ body[1].op = "AssignConst" /\ body[1].x = "a" /\ body[1].lit = IntLit(0)
  /\ body[2].op = "While" /\ body[2].y = "a"
  /\ body[3].op = "AssignAdd" /\ body[3].x = "a" /\ body[3].y = "a"
  /\ body[4].op = "EndLoop"
  /\ \E n \in 1..Len(nodes) : nodes[n].kind = "prim::Loop" /\ Len(nodes[n].outputs) = 1 /\ Len(nodes[n].inputs) = 3 /\ frames[1].value_table["a"] = SimpleValue(nodes[n].outputs[1])

\* ------------------------------------------------------------ if / else
\* the step ends an if statement that emitIfElseBlocks compiles
EndsIf == Done.op = "EndIf" /\ Last(ctl).h = "if"
SaveTrue == Last(ctl).saved[1]
SaveFalse == Last(frames)
IfNode == Last(ctl).n
\* bound in the branch frame itself
Direct(frame, x) == frame.value_table[x] # NoSV
\* what the name is bound to at the end of a branch, in the branch frame or
\* in a frame around the if statement
SeenFrom(frame, x) == IF Direct(frame, x) THEN frame.value_table[x] ELSE Enclosing(x)
TypeIn(frame, x) == vtype[asSimple(SeenFrom(frame, x))]
Visible(x) == SeenFrom(SaveTrue, x) # NoSV /\ SeenFrom(SaveFalse, x) # NoSV
Assigned(x) == Direct(SaveTrue, x) \/ Direct(SaveFalse, x)
Unifies(x) == unifyTypes(TypeIn(SaveTrue, x), TypeIn(SaveFalse, x)) # ""
\* what the name is bound to after the if statement
After(x) == findInAnyFrame(StNext, Len(frames'), x)

\* the name has a Block output in both branches and a new output of the
\* prim::If node that it is bound to in the outer scope
Threaded(x) ==
  LET out == asSimple(frames'[Len(frames')].value_table[x])
      k == IndexOf(nodes'[IfNode].outputs, out)
  IN /\ out \in Range(nodes'[IfNode].outputs)
     /\ blocks'[nodes'[IfNode].blocks[1]].outputs[k] = asSimple(SeenFrom(SaveTrue, x))
     /\ blocks'[nodes'[IfNode].blocks[2]].outputs[k] = asSimple(SeenFrom(SaveFalse, x))
     /\ vtype'[out] = unifyTypes(TypeIn(SaveTrue, x), TypeIn(SaveFalse, x))

OutputCount(n) ==
  /\ Len(nodes'[IfNode].outputs) = n
  /\ Len(blocks'[nodes'[IfNode].blocks[1]].outputs) = n
  /\ Len(blocks'[nodes'[IfNode].blocks[2]].outputs) = n

\* ------------------------------------------------------------ C4
Mismatched(x) == Assigned(x) /\ Visible(x) /\ ~Unifies(x)

Reconciled ==
  /\ \A x \in Names : (Mismatched(x) /\ Enclosing(x) # NoSV) => status' = "IfTypeMismatch"
  /\ (\A x \in Names : Mismatched(x) => Enclosing(x) = NoSV) => status' = "ok"
  /\ status' = "ok" =>
       /\ \A x \in Names : Mismatched(x) =>
            /\ frames'[1].error_messages[x] = <<x, TypeIn(SaveTrue, x), TypeIn(SaveFalse, x)>>
            /\ After(x) = NoSV
       /\ OutputCount(Cardinality({x \in Names : Assigned(x) /\ Visible(x) /\ Unifies(x)}))
       /\ \A x \in Names : ~Mismatched(x) => frames'[1].error_messages[x] = frames[1].error_messages[x]

\* C4: when the types of a mutated name do not unify at the end of an if/else,
\* compilation fails there if the name is bound in a frame around the if
\* statement; otherwise no error is raised there, the diagnostic is recorded
\* under the name in the error table of the root frame, neither branch gets a
\* Block output for it, and the name is unbound after the if/else
C4_Mismatch == [][EndsIf => Reconciled]_vars

\* `if ..: a = 0 else: a = 1.5` with a unbound before it: the diagnostic is
\* recorded, the prim::If node has no output and a is unbound
C4_Witness ==
  /\ Len(body) = 5 /\ status = "ok" /\ blocks[1].inputs = <<>>
  /\ body[2].op = "AssignConst" /\ body[2].lit = IntLit(0)
  /\ body[4].op = "AssignConst" /\ body[4].lit = FpLit(15)
  /\ body[5].op = "EndIf"
  /\ frames[1].error_messages["a"] = <<"a", "int", "float">>
  /\ frames[1].value_table["a"] = NoSV
  /\ \E n \in 1..Len(nodes) : nodes[n].kind = "prim::If" /\ nodes[n].outputs = <<>>

\* ------------------------------------------------------------ C6
\* C6 as stated: a name is threaded through the prim::If node if and only if
\* it is defined in both branches' frames, directly or inherited, and its
\* branch types unify
C6_AsStated == [][(EndsIf /\ status' = "ok") => \A x \in Names : Threaded(x) <=> (Visible(x) /\ Unifies(x))]_vars

\* C6: a name gets a Block output in both branches and a new output of the
\* prim::If node bound in the outer scope if and only if it is assigned in at
\* least one branch, is defined in both branches' frames directly or
\* inherited, and its branch types unify
C6_Threaded ==
  [][(EndsIf /\ status' = "ok") =>
       /\ \A x \in Names : Threaded(x) <=> (Assigned(x) /\ Visible(x) /\ Unifies(x))
       /\ OutputCount(Cardinality({x \in Names : Assigned(x) /\ Visible(x) /\ Unifies(x)}))]_vars

\* `if ..: .. else: b = 0` on a parameter b: b is assigned in the false
\* branch only and inherited in the true branch, and is an output
C6_Witness ==
  /\ body # <<>> /\ Last(body).op = "EndIf" /\ status = "ok" /\ ctl = <<>>
  /\ Len(body) = 4 /\ body[2].op = "Else" /\ body[3].op = "AssignConst" /\ body[3].x = "b" /\ body[3].lit = IntLit(0)
  /\ Len(blocks[1].inputs) = 2
  /\ \E n \in 1..Len(nodes) :
       /\ nodes[n].kind = "prim::If" /\ Len(nodes[n].outputs) = 1
       /\ frames[1].value_table["b"] = SimpleValue(nodes[n].outputs[1])
       /\ blocks[nodes[n].blocks[1]].outputs = <<blocks[1].inputs[2]>>

\* ------------------------------------------------------------ C3
\* the step compiles a read of the name y
Reads(y) == Done.op = "ExprStmt" /\ Done.y = y
Bound(y) == findInAnyFrame(St, Len(frames), y) # NoSV
Recorded(y) == frames[1].error_messages[y] # NoMsg
\* the place of the first end of an if statement in the body, 0 if none
FirstEndIf == IF \E i \in 1..Len(body) : body[i].op = "EndIf" THEN CHOOSE i \in 1..Len(body) : body[i].op = "EndIf" /\ \A j \in 1..(i - 1) : body[j].op # "EndIf" ELSE 0
\* no read of y since the first if statement ended
UnreadSince(y) == \A i \in (FirstEndIf + 1)..Len(body) : ~(body[i].op = "ExprStmt" /\ body[i].y = y)

\* C3 as stated: after an if/else that recorded a type mismatch for a name,
\* the first read of the name fails with the recorded diagnostic
C3_AsStated ==
  [][\A y \in Names : (Reads(y) /\ Recorded(y) /\ UnreadSince(y)) => (status' = "DeferredTypeMismatch" /\ errmsg' = frames[1].error_messages[y])]_vars

DeferredRead ==
  /\ (EndsIf /\ (\E x \in Names : Mismatched(x)) /\ (\A x \in Names : Mismatched(x) => Enclosing(x) = NoSV)) => status' = "ok"
  /\ Done.op # "ExprStmt" => status' # "DeferredTypeMismatch"
  /\ \A y \in Names : Reads(y) =>
       IF Bound(y) THEN status' = "ok"
       ELSE IF Recorded(y) THEN status' = "DeferredTypeMismatch" /\ errmsg' = frames[1].error_messages[y]
       ELSE status' = "UndefinedValue"

\* C3: an if/else whose branches give a name unbound around it values of
\* types that do not unify raises no error itself, and no statement other than
\* a read raises the recorded diagnostic; a read of the name fails with the
\* recorded diagnostic as long as the name is still unbound, and succeeds
\* inside a branch that assigned it or once the name has been assigned again
C3_Deferred == [][DeferredRead]_vars

\* `if ..: a = 0 else: a = 1.5` followed by a read of a: the read fails with
\* the diagnostic the if/else recorded
C3_Witness ==
  /\ Len(body) = 6 /\ blocks[1].inputs = <<>>
  /\ body[2].op = "AssignConst" /\ body[2].lit = IntLit(0)
  /\ body[4].op = "AssignConst" /\ body[4].lit = FpLit(15)
  /\ body[5].op = "EndIf" /\ body[6].op = "ExprStmt"
  /\ status = "DeferredTypeMismatch" /\ errmsg = <<"a", "int", "float">>

\* ------------------------------------------------------------ C7
InOneBranch(x) == Direct(SaveTrue, x) # Direct(SaveFalse, x)
InBothBranches(x) == Direct(SaveTrue, x) /\ Direct(SaveFalse, x)
\* the Block output that the branch without an assignment contributes
OtherOutput(x) ==
  LET k == IndexOf(nodes'[IfNode].outputs, asSimple(After(x)))
  IN IF Direct(SaveTrue, x) THEN blocks'[nodes'[IfNode].blocks[2]].outputs[k] ELSE blocks'[nodes'[IfNode].blocks[1]].outputs[k]

\* C7 as stated: after an if statement a name assigned in only one branch and
\* unbound before is unbound, a name assigned in both branches is bound, and
\* a name bound before and assigned in only one branch is bound
C7_AsStated ==
  [][(EndsIf /\ status' = "ok") => \A x \in Names :
       /\ (InOneBranch(x) /\ Enclosing(x) = NoSV) => After(x) = NoSV
       /\ InBothBranches(x) => After(x) # NoSV
       /\ (InOneBranch(x) /\ Enclosing(x) # NoSV) => After(x) # NoSV]_vars

ScopeAfterIf ==
  /\ (EndsIf /\ status' = "ok") => \A x \in Names :
       /\ (InOneBranch(x) /\ Enclosing(x) = NoSV) => After(x) = NoSV
       /\ (InBothBranches(x) /\ Unifies(x)) => Threaded(x)
       /\ (InBothBranches(x) /\ ~Unifies(x)) => After(x) = NoSV
       /\ (InOneBranch(x) /\ Enclosing(x) # NoSV) => (Threaded(x) /\ OtherOutput(x) = asSimple(Enclosing(x)))
       /\ After(x) # NoSV => (Enclosing(x) # NoSV \/ InBothBranches(x))
       /\ ~Assigned(x) => After(x) = Enclosing(x)
  /\ (EndsIf /\ status' # "ok") => \E x \in Names : Assigned(x) /\ Enclosing(x) # NoSV /\ ~Unifies(x)
  /\ \A y \in Names : (Reads(y) /\ ~Bound(y)) => status' = (IF Recorded(y) THEN "DeferredTypeMismatch" ELSE "UndefinedValue")

\* C7: after an if statement a name assigned in only one branch and unbound
\* before it is unbound, and a later read of it fails: as undefined, or with
\* the type-mismatch diagnostic if one is recorded for the name; a name
\* assigned in both branches with types that unify is bound to a new output of
\* the prim::If node, and is unbound if the types do not unify; a name bound
\* before the if and assigned in only one branch is bound to a new output, the
\* other branch contributing the value from before the if, unless the types do
\* not unify, which fails at the if; a name is bound after the if only if it
\* was bound before it or is assigned in both branches
C7_Scope == [][ScopeAfterIf]_vars

\* `if ..: b = 0 else: ..` on a parameter b: after it b is the output of the
\* prim::If node whose false Block returns the parameter
C7_Witness ==
  /\ Len(body) = 4 /\ status = "ok" /\ ctl = <<>> /\ Len(blocks[1].inputs) = 2
  /\ body[2].op = "AssignConst" /\ body[2].x = "b" /\ body[2].lit = IntLit(0) /\ body[3].op = "Else" /\ body[4].op = "EndIf"
  /\ \E n \in 1..Len(nodes) :
       /\ nodes[n].kind = "prim::If" /\ Len(nodes[n].outputs) = 1
       /\ frames[1].value_table["b"] = SimpleValue(nodes[n].outputs[1])
       /\ blocks[nodes[n].blocks[2]].outputs = <<blocks[1].inputs[2]>>
       /\ blocks[nodes[n].blocks[1]].outputs # <<blocks[1].inputs[2]>>

\* ------------------------------------------------------------ C10
\* the two compilations of the body have built the same Graph
SameGraph(c, d) == c.nodes = d.nodes /\ c.blocks = d.blocks /\ c.vtype = d.vtype /\ c.status = d.status /\ c.errmsg = d.errmsg

\* the outputs of the node n are bound in the frame in the alphabetical order
\* of their names
OutputsByName(c, n, frame) ==
  \A x \in Names, y \in Names :
    LET ox == asSimple(frame.value_table[x])
        oy == asSimple(frame.value_table[y])
    IN (ox \in Range(c.nodes[n].outputs) /\ oy \in Range(c.nodes[n].outputs) /\ NameRank(x) < NameRank(y))
         => IndexOf(c.nodes[n].outputs, ox) < IndexOf(c.nodes[n].outputs, oy)

\* the loop-carried names of every loop being compiled are in alphabetical order
CapturedByName(c) ==
  \A i \in 1..Len(c.frames) : \A j \in 1..(Len(c.frames[i].captured_inputs) - 1) :
    NameRank(c.frames[i].captured_inputs[j]) < NameRank(c.frames[i].captured_inputs[j + 1])

Deterministic ==
  /\ Len(twin') = 1 /\ SameGraph(StNext, twin'[1])
  /\ CapturedByName(StNext)
  /\ (Done.op \in {"EndIf", "EndLoop"} /\ status' = "ok" /\ Last(ctl).h \in {"if", "loop"}) => OutputsByName(StNext, Last(ctl).n, Last(frames'))

\* C10: two compilations of the same body, each into a fresh Graph, build the
\* same nodes in the same order with the same Block inputs and outputs and the
\* same types, whatever order the hash maps iterate in; the outputs of a
\* prim::If node and the loop-carried dependencies are in the alphabetical
\* order of their names, not in the order of use
C10_Deterministic == [][Deterministic]_vars

\* `if ..: b = b + 1; a = a + 1 else: ..`: both compilations give the prim::If
\* node the outputs a, b in that order
C10_Witness ==
  /\ Len(twin) = 1 /\ status = "ok" /\ SameGraph(St, twin[1])
  /\ Len(body) = 5 /\ body[1].op = "If" /\ body[2].op = "AssignAdd" /\ body[2].x = "b" /\ body[3].op = "AssignAdd" /\ body[3].x = "a" /\ body[5].op = "EndIf"
  /\ \E n \in 1..Len(nodes) :
       /\ nodes[n].kind = "prim::If" /\ Len(nodes[n].outputs) = 2
       /\ frames[1].value_table["a"] = SimpleValue(nodes[n].outputs[1])
       /\ frames[1].value_table["b"] = SimpleValue(nodes[n].outputs[2])

\* ------------------------------------------------------------ C11
\* what a name is bound to before and after the statement of the step
BoundBefore(x) == findInAnyFrame(St, Len(frames), x)
\* the nodes the step created, in the order of their creation
NewNodes == SubSeq(nodes', Len(nodes) + 1, Len(nodes'))
NewAdds == SelectSeq(NewNodes, LAMBDA n : n.kind = "aten::add")
\* the elements of the tuple, as the outputs of the prim::TupleUnpack node
Instances == NewNodes[1].outputs
\* the statements of the unrolled body that assign, and that compute `.. + 1`
Assigns(stmts, x) == {i \in 1..Len(stmts) : stmts[i].x = x}
AddsIn(stmts) == Cardinality({i \in 1..Len(stmts) : stmts[i].op = "AssignAdd"})
\* the value the name x has at the end of iteration k of the body stmts of a
\* loop `for target in ..`, x assigned by the body or the target
ValueAtEnd(stmts, target, x, k) ==
  IF Assigns(stmts, x) = {} THEN Instances[k]
  ELSE LET i == CHOOSE i \in Assigns(stmts, x) : \A j \in Assigns(stmts, x) : j <= i
       IN IF stmts[i].op = "AssignVar" THEN Instances[k]
          ELSE NewAdds[(k - 1) * AddsIn(stmts) + Cardinality({j \in 1..i : stmts[j].op = "AssignAdd"})].outputs[1]

Unrolled(s) ==
  LET n == Len(elements(VarType("t")))
      assigned == IF n = 0 THEN {} ELSE {s.x} \cup {s.y[i].x : i \in 1..Len(s.y)}
  IN /\ NewNodes[1].kind = "prim::TupleUnpack" /\ Len(Instances) = n
     /\ \A i \in 1..n : vtype'[Instances[i]] = elements(VarType("t"))[i]
     /\ Len(NewAdds) = n * AddsIn(s.y)
     /\ (s.y = <<Stmt("AssignAdd", "a", s.x, NoLit)>>) => \A k \in 1..n : NewAdds[k].inputs[1] = Instances[k]
     /\ Len(frames') = Len(frames)
     /\ \A x \in Names :
          /\ (x \in assigned /\ After(x) # NoSV) => frames'[Len(frames')].value_table[x] = SimpleValue(ValueAtEnd(s.y, s.x, x, n))
          /\ (x \in assigned /\ BoundBefore(x) # NoSV) => After(x) # NoSV
          /\ x \notin assigned => After(x) = BoundBefore(x)

\* C11: `for x in t` over a tuple t of n elements emits the body n times, in
\* the order of the elements (not at all for n = 0); after the loop every name
\* the loop assigned that is visible is bound in the parent frame to the value
\* it had at the end of the last iteration, whatever its type was in the
\* earlier iterations and before the loop; every name that was bound before
\* the loop is visible after it
C11_Unrolled == [][(Done.op = "ForIn" /\ status' = "ok") => Unrolled(Done)]_vars

\* `for b in t: a = b` on a : number and t : (int, float): after the loop a is
\* the second element, a float, and b, unbound before, is unbound
C11_Witness ==
  /\ body # <<>> /\ Last(body).op = "ForIn" /\ status = "ok" /\ ctl = <<>>
  /\ Last(body).x = "b" /\ Last(body).y = <<Stmt("AssignVar", "a", "b", NoLit)>>
  /\ vtype[blocks[1].inputs[1]] = "number" /\ vtype[Last(blocks[1].inputs)] = "(int, float)"
  /\ Newest(nodes).kind = "prim::TupleUnpack"
  /\ frames[1].value_table["a"] = SimpleValue(Newest(nodes).outputs[2])
  /\ vtype[Newest(nodes).outputs[2]] = "float"
  /\ frames[1].value_table["b"] = NoSV

\* ------------------------------------------------------------ C12
\* the place of a new node in nodes', and the Blocks whose node list has it
NewIndex(k) == Len(nodes) + k
BlocksOf(n) == {b \in 1..Len(blocks') : n \in Range(blocks'[b].nodes)}
\* the prim::If node of the step: the first one among the new nodes
NewIf == NewIndex(CHOOSE k \in 1..Len(NewNodes) : NewNodes[k].kind = "prim::If" /\ \A j \in 1..(k - 1) : NewNodes[j].kind # "prim::If")
\* a literal that materializeConstant keeps at the front of the graph
Interned(n) == nodes'[n].kind = "prim::Constant" /\ vtype'[nodes'[n].outputs[1]] # "bool"

ShortCircuited(s) ==
  LET is_or == s.lit
      cur == Last(frames).b
      first_value == nodes'[NewIf].inputs[1]
      second_block == nodes'[NewIf].blocks[IF is_or THEN 2 ELSE 1]
      first_block == nodes'[NewIf].blocks[IF is_or THEN 1 ELSE 2]
  IN /\ Cardinality({k \in 1..Len(NewNodes) : NewNodes[k].kind = "prim::If"}) = 1
     /\ Len(nodes'[NewIf].inputs) = 1 /\ Len(nodes'[NewIf].blocks) = 2
     \* the first operand is lowered before the node, in the current Block
     /\ NewIf > Len(nodes) + 1
     /\ first_value \in Range(nodes'[NewIf - 1].outputs)
     /\ \A n \in (Len(nodes) + 1)..(NewIf - 1) : ~Interned(n) => BlocksOf(n) = {cur}
     /\ BlocksOf(NewIf) = {cur}
     /\ \A i \in 1..Len(blocks'[cur].nodes) : blocks'[cur].nodes[i] = NewIf - 1 => blocks'[cur].nodes[i + 1] = NewIf
     \* the nodes of the second operand are in one Block of the node only
     /\ Len(nodes') > NewIf
     /\ \A n \in (NewIf + 1)..Len(nodes') : ~Interned(n) => BlocksOf(n) = {second_block}
     /\ blocks'[second_block].outputs = <<Last(nodes').outputs[1]>>
     \* the other Block yields the value of the first operand
     /\ blocks'[first_block].nodes = <<>> /\ blocks'[first_block].outputs = <<first_value>>
     /\ Len(nodes'[NewIf].outputs) = 1 /\ vtype'[nodes'[NewIf].outputs[1]] = "bool"

\* C12: for `first or second` and `first and second` the first operand is
\* lowered before a prim::If node that has its value as the condition, and
\* every node emitted for the second operand, apart from the literals that
\* are kept once at the front of the graph, lies in one Block of that node and
\* in no other Block: the false Block for `or`, the true Block for `and`; the
\* other Block has no node and yields the value of the first operand
C12_ShortCircuit == [][(Done.op = "ShortCircuit" /\ status' = "ok") => ShortCircuited(Done)]_vars

\* `a < 3 or b < 3`: the comparison of b is in the false Block of the node
C12_Witness ==
  /\ Len(body) = 1 /\ body[1].op = "ShortCircuit" /\ body[1].x = "a" /\ body[1].y = "b" /\ body[1].lit = TRUE /\ status = "ok"
  /\ Len(blocks[1].inputs) = 2
  /\ \E n \in 1..Len(nodes) :
       /\ nodes[n].kind = "prim::If" /\ Len(nodes[n].blocks) = 2
       /\ blocks[nodes[n].blocks[1]].nodes = <<>>
       /\ Len(blocks[nodes[n].blocks[2]].nodes) = 1
       /\ nodes[blocks[nodes[n].blocks[2]].nodes[1]].kind = "aten::lt"
       /\ nodes[blocks[nodes[n].blocks[2]].nodes[1]].inputs[1] = blocks[1].inputs[2]
       /\ blocks[nodes[n].blocks[1]].outputs = nodes[n].inputs

\* ------------------------------------------------------------ C13
\* the call of the step: its schema, receiver, positional and keyword arguments
\* the step is a call with one overload
OneSchema == Done.op = "Apply" /\ Len(Done.x) = 1
CallSchema == Done.x[1]
CallSelf == Done.y.self
CallArgs == Done.lit
CallKwargs == Done.y.kwargs
\* the node the step created last, and the node of a call that matched
NewF == Newest(nodes')
ProducerAfter(v) == producer([nodes |-> nodes'], v)
\* the value a new value was converted from: through the nodes of the step
\* (prim::ImplicitTensorToNum, prim::ListConstruct, prim::TupleUnpack) back to
\* a value that was there before, or to a constant
RECURSIVE Root(_)
Root(v) ==
  IF ProducerAfter(v) > Len(nodes) /\ nodes'[ProducerAfter(v)].inputs # <<>> THEN Root(nodes'[ProducerAfter(v)].inputs[1]) ELSE v
\* a formal that is a list without a fixed size in the last positional slot,
\* met with an actual that is no list and no tuple that converts to it
ListShaped(type, formal) ==
  \/ type \in {"int[]", "float[]"}
  \/ type \in AllTupleTypes /\ \A i \in 1..Len(elements(type)) : elements(type)[i] = (IF formal = "int[]" THEN "int" ELSE "float")
TakesRest(s, i, actual) ==
  /\ s.arguments[i].type \in {"int[]", "float[]"} /\ s.arguments[i].N = 0
  /\ (i = Len(s.arguments) \/ s.arguments[i + 1].kwarg_only)
  /\ ~ListShaped(VarType(actual), s.arguments[i].type)
\* where the parameters of s take their values from, in the order of the
\* parameters, up to the first that finds none: recv is TRUE while there is
\* an unused receiver, used is the number of positional arguments consumed
RECURSIVE Sources(_, _, _, _, _, _, _)
Sources(s, i, recv, used, args, kwargs, acc) ==
  IF i > Len(s.arguments) THEN acc
  ELSE LET p == s.arguments[i]
           named == {k \in 1..Len(kwargs) : kwargs[k].name = p.name}
       IN IF p.name = "self" /\ recv THEN Sources(s, i + 1, FALSE, used, args, kwargs, Append(acc, [from |-> "receiver", at |-> 0]))
          ELSE IF ~p.kwarg_only /\ used < Len(args)
          THEN IF TakesRest(s, i, args[used + 1]) THEN Sources(s, i + 1, recv, Len(args), args, kwargs, Append(acc, [from |-> "rest", at |-> used + 1]))
               ELSE Sources(s, i + 1, recv, used + 1, args, kwargs, Append(acc, [from |-> "positional", at |-> used + 1]))
          ELSE IF named # {} THEN Sources(s, i + 1, recv, used, args, kwargs, Append(acc, [from |-> "keyword", at |-> CHOOSE k \in named : \A j \in named : k <= j]))
          ELSE IF p.default_value # None THEN Sources(s, i + 1, recv, used, args, kwargs, Append(acc, [from |-> "default", at |-> 0]))
          ELSE Append(acc, [from |-> "missing", at |-> 0])
CallSources == Sources(CallSchema, 1, CallSelf # None, 0, CallArgs, CallKwargs, <<>>)
\* the input v of the node is what the source src yields for parameter p
BoundFrom(p, src, v) ==
  CASE src.from = "receiver" -> Root(v) = ParamValue(CallSelf[1])
    [] src.from = "positional" -> Root(v) = ParamValue(CallArgs[src.at])
    [] src.from = "keyword" -> Root(v) = ParamValue(CallKwargs[src.at].v)
    [] src.from = "default" -> /\ ProducerAfter(Root(v)) > Len(nodes)
                               /\ nodes'[ProducerAfter(Root(v))].kind = "prim::Constant"
                               /\ nodes'[ProducerAfter(Root(v))].attr = <<p.default_value[1].val>>
    [] src.from = "rest" -> /\ ProducerAfter(v) > Len(nodes)
                            /\ nodes'[ProducerAfter(v)].kind = "prim::ListConstruct"
                            /\ Len(nodes'[ProducerAfter(v)].inputs) = Len(CallArgs) - src.at + 1
                            /\ \A j \in 1..Len(nodes'[ProducerAfter(v)].inputs) : Root(nodes'[ProducerAfter(v)].inputs[j]) = ParamValue(CallArgs[src.at + j - 1])
    [] OTHER -> FALSE
TypeErrors == {"could not match type", "expected a value of type"}
BindsByPriority ==
  LET src == CallSources
      n == Len(CallSchema.arguments)
  IN /\ status' = "ok" =>
          /\ Len(src) = n /\ NewF.kind = "f" /\ Len(NewF.inputs) >= n
          /\ \A i \in 1..n : BoundFrom(CallSchema.arguments[i], src[i], NewF.inputs[i])
     /\ Last(src).from = "missing" =>
          /\ status' = "CallNotValid" /\ Len(errmsg') = 1
          /\ \/ errmsg'[1] = <<CallSchema.id, "not provided", CallSchema.arguments[Len(src)].name>>
             \/ errmsg'[1][2] \in TypeErrors
     /\ (status' = "CallNotValid" /\ errmsg'[1][2] = "not provided") =>
          /\ Last(src).from = "missing"
          /\ errmsg'[1][3] = CallSchema.arguments[Len(src)].name

\* C13: in one attempt to match a schema each parameter, in the order of the
\* parameters, takes the receiver if it is named self and a receiver is still
\* unused; else the next positional argument not yet consumed, unless it is
\* keyword-only; else the keyword argument of its name; else its default; if
\* none of these is there the attempt fails with 'argument not provided'.
\* Positional arguments are consumed from left to right, each at most once
C13_Priority == [][OneSchema => BindsByPriority]_vars

\* a.f(b) against f(self: Tensor, x: int, y: int = 0) with a : Tensor, b : int:
\* the receiver, the positional argument and the default, in this order
C13_Witness ==
  /\ Len(body) = 1 /\ body[1].op = "Apply" /\ status = "ok"
  /\ body[1].x[1].id = 21 /\ body[1].y.self = Some("a") /\ body[1].lit = <<"b">> /\ body[1].y.kwargs = <<>>
  /\ Newest(nodes).kind = "f"
  /\ Newest(nodes).inputs[1] = blocks[1].inputs[1] /\ Newest(nodes).inputs[2] = blocks[1].inputs[2]
  /\ nodes[producer(St, Newest(nodes).inputs[3])].kind = "prim::Constant"

\* ------------------------------------------------------------ C14
\* the call has a positional argument for a first parameter that is a list
FirstIsList == CallSchema.arguments[1].type \in {"int[]", "float[]"} /\ CallArgs # <<>>
\* the first parameter is in the last positional slot and the first actual
\* is neither a list nor a tuple that converts to the list
LastSlotNotList ==
  /\ (Len(CallSchema.arguments) = 1 \/ CallSchema.arguments[2].kwarg_only)
  /\ ~ListShaped(VarType(CallArgs[1]), CallSchema.arguments[1].type)
\* the positional parameters of the schema
Positionals(s) == {i \in 1..Len(s.arguments) : ~s.arguments[i].kwarg_only}
\* what is seen of the first parameter when it takes all the positional
\* arguments (greedy), and when it takes one
Consumes(greedy) ==
  LET p == CallSchema.arguments[1]
  IN /\ status' = "ok" =>
          IF greedy THEN BoundFrom(p, [from |-> "rest", at |-> 1], NewF.inputs[1])
          ELSE /\ BoundFrom(p, [from |-> "positional", at |-> 1], NewF.inputs[1])
               /\ Len(CallArgs) > 1 => /\ Len(NewF.inputs) > 1
                                       /\ BoundFrom(p, [from |-> "positional", at |-> 2], NewF.inputs[2])
                                       /\ ~BoundFrom(p, [from |-> "rest", at |-> 1], NewF.inputs[1])
     /\ (status' = "CallNotValid" /\ errmsg'[1][2] = "expected at most") =>
          /\ ~greedy
          /\ errmsg'[1][3] = Cardinality(Positionals(CallSchema)) /\ errmsg'[1][4] = Len(CallArgs)
     /\ (~greedy /\ Len(CallArgs) > Cardinality(Positionals(CallSchema))) => status' = "CallNotValid"

\* C14 as stated: the list takes all the positional arguments left only when
\* it has a fixed arity, is in the last positional slot and the next actual
\* is not list-shaped; in every other case it takes exactly one
C14_AsStated == [][(OneSchema /\ FirstIsList) => Consumes(CallSchema.arguments[1].N # 0 /\ LastSlotNotList)]_vars

\* C14: a list-typed parameter takes all the positional arguments left, as
\* one new list, exactly when it has no fixed arity N, is in the last
\* positional slot (the last parameter, or the one before a keyword-only
\* parameter) and the next actual is neither a list nor a tuple that converts
\* to the list type; in every other case, a list of a fixed arity included,
\* it takes exactly one positional argument
C14_Greedy == [][(OneSchema /\ FirstIsList) => Consumes(CallSchema.arguments[1].N = 0 /\ LastSlotNotList)]_vars

\* f(b, b) against f(sizes: int[]) with b : int: one list of the two
C14_Witness ==
  /\ Len(body) = 1 /\ body[1].op = "Apply" /\ status = "ok"
  /\ body[1].x[1].id = 23 /\ body[1].lit = <<"b", "b">>
  /\ Newest(nodes).kind = "f" /\ Len(Newest(nodes).inputs) = 1
  /\ nodes[producer(St, Newest(nodes).inputs[1])].kind = "prim::ListConstruct"
  /\ nodes[producer(St, Newest(nodes).inputs[1])].inputs = <<blocks[1].inputs[2], blocks[1].inputs[2]>>

\* ------------------------------------------------------------ C15
\* the parameter walk found a source for every parameter
WalkComplete == Len(CallSources) = Len(CallSchema.arguments) /\ Last(CallSources).from # "missing"
\* the positional arguments the walk consumed, and the keyword arguments it left
UsedArgs ==
  IF \E i \in 1..Len(CallSources) : CallSources[i].from = "rest" THEN Len(CallArgs)
  ELSE Cardinality({i \in 1..Len(CallSources) : CallSources[i].from = "positional"})
UnusedKwargs == {k \in 1..Len(CallKwargs) : \A i \in 1..Len(CallSources) : ~(CallSources[i].from = "keyword" /\ CallSources[i].at = k)}
FirstUnused == CHOOSE k \in UnusedKwargs : \A j \in UnusedKwargs : k <= j
HasParameter(name) == \E i \in 1..Len(CallSchema.arguments) : CallSchema.arguments[i].name = name
Failed(what) == status' = "CallNotValid" /\ errmsg'[1][2] = what
LeftoversChecked ==
  LET n == Len(CallSchema.arguments)
  IN \* what is left makes the candidate fail
     /\ (WalkComplete /\ UsedArgs < Len(CallArgs) /\ ~CallSchema.is_vararg) => status' = "CallNotValid"
     /\ (WalkComplete /\ UnusedKwargs # {}) => status' = "CallNotValid"
     \* the diagnostics
     /\ Failed("expected at most") =>
          /\ WalkComplete /\ UsedArgs < Len(CallArgs) /\ ~CallSchema.is_vararg
          /\ errmsg'[1][3] = UsedArgs /\ errmsg'[1][4] = Len(CallArgs)
     /\ Failed("keyword argument unknown") =>
          /\ WalkComplete /\ UnusedKwargs # {} /\ errmsg'[1][3] = CallKwargs[FirstUnused].name
          /\ ~HasParameter(CallKwargs[FirstUnused].name)
     /\ Failed("keyword argument specified twice") =>
          /\ WalkComplete /\ UnusedKwargs # {} /\ errmsg'[1][3] = CallKwargs[FirstUnused].name
          /\ HasParameter(CallKwargs[FirstUnused].name)
     \* a match binds every positional and keyword argument once
     /\ status' = "ok" =>
          /\ WalkComplete /\ UnusedKwargs = {}
          /\ \A i \in 1..n : BoundFrom(CallSchema.arguments[i], CallSources[i], NewF.inputs[i])
          /\ \A k \in 1..Len(CallKwargs) : Cardinality({i \in 1..n : CallSources[i].from = "keyword" /\ CallSources[i].at = k}) = 1
          /\ Len(NewF.inputs) = n + (Len(CallArgs) - UsedArgs)
          /\ UsedArgs < Len(CallArgs) => CallSchema.is_vararg
          /\ \A j \in 1..(Len(CallArgs) - UsedArgs) : NewF.inputs[n + j] = ParamValue(CallArgs[UsedArgs + j])

\* C15: after the parameter walk positional arguments left unconsumed make
\* the candidate fail unless the schema is variadic, and then they are
\* appended to the inputs in order and unconverted; a keyword argument left
\* unused makes the candidate fail, with 'unknown' when no parameter has its
\* name and 'specified twice' when one has (the walk is complete, so that
\* parameter is bound already: by a positional argument, by the receiver or
\* by an earlier keyword argument of that name); on a match
\* every positional and keyword argument is bound exactly once
C15_Leftovers == [][OneSchema => LeftoversChecked]_vars

\* f(a, b, b) against f(x: int, ...) with a : Tensor, b : int[]: a is
\* converted for x, the two lists are appended as they are
C15_Witness ==
  /\ Len(body) = 1 /\ body[1].op = "Apply" /\ status = "ok"
  /\ body[1].x[1].id = 26 /\ body[1].lit = <<"a", "b", "b">>
  /\ vtype[blocks[1].inputs[1]] = "Tensor" /\ vtype[blocks[1].inputs[2]] = "int[]"
  /\ Newest(nodes).kind = "f" /\ Len(Newest(nodes).inputs) = 3
  /\ nodes[producer(St, Newest(nodes).inputs[1])].kind = "prim::ImplicitTensorToNum"
  /\ Newest(nodes).inputs[2] = blocks[1].inputs[2] /\ Newest(nodes).inputs[3] = blocks[1].inputs[2]

\* ------------------------------------------------------------ C16
\* the same call with one of its overloads only, from the state before the step
Alone(i) == emitApplyStmt(St, <<Done.x[i]>>, CallSelf, CallArgs, CallKwargs)
\* the node a compilation ends with is the call to the operator id, and the
\* return type the match resolved
CallsOperator(ns, id) == ns # <<>> /\ Newest(ns).kind = "f" /\ Newest(ns).attr = <<id>>
ResolvedType(c) == c.vtype[Newest(c.nodes).outputs[1]]
TypeEnvFresh ==
  LET first == Alone(1)
      second == Alone(2)
  IN \* the second overload after a first one that failed in both passes
     /\ (first.status # "ok" /\ second.status # "ok") => status' # "ok"
     /\ (first.status # "ok" /\ second.status = "ok") =>
          /\ status' = "ok" /\ CallsOperator(nodes', Done.x[2].id)
          /\ ResolvedType(StNext) = ResolvedType(second)
     \* a call that selects an overload resolves what the overload resolves alone
     /\ \A i \in 1..2 : (status' = "ok" /\ CallsOperator(nodes', Done.x[i].id)) =>
          /\ Alone(i).status = "ok" /\ ResolvedType(StNext) = ResolvedType(Alone(i))

\* C16: every match attempt starts from an empty TypeEnv: whether an overload
\* matches and the return type it resolves are those of the call with that
\* overload alone, whichever overload was tried before it and however far
\* that attempt got before it failed
C16_FreshTypeEnv == [][(Done.op = "Apply" /\ Len(Done.x) = 2) => TypeEnvFresh]_vars

\* f(a, b) with a : int, b : int[] against f(x: T1, y: T1) -> T1, which binds
\* T1 to int and fails on b, and then f(x: int, y: T1) -> T1, which matches
\* with T1 bound to int[]
C16_Witness ==
  /\ Len(body) = 1 /\ body[1].op = "Apply" /\ status = "ok"
  /\ Len(body[1].x) = 2 /\ body[1].x[1].id = 28 /\ body[1].x[2].id = 29 /\ body[1].lit = <<"a", "b">>
  /\ vtype[blocks[1].inputs[1]] = "int" /\ vtype[blocks[1].inputs[2]] = "int[]"
  /\ Newest(nodes).kind = "f" /\ Newest(nodes).attr = <<29>>
  /\ vtype[Newest(nodes).outputs[1]] = "int[]"

\* ------------------------------------------------------------ C17
\* the nodes that feed the nodes of S, through at most k producers
RECURSIVE Upstream(_, _)
Upstream(S, k) ==
  IF k = 0 THEN S
  ELSE Upstream(S \cup ({ProducerAfter(v) : v \in UNION {Range(nodes'[n].inputs) : n \in S}} \ {0}), k - 1)
\* the nodes of the step
NewOnes == (Len(nodes) + 1)..Len(nodes')
Committed ==
  IF status' = "ok" THEN NewF.kind = "f" /\ NewOnes \subseteq Upstream({Len(nodes')}, Len(nodes') - Len(nodes))
  ELSE NewOnes = {}

\* C17: a match attempt that fails leaves the graph as it was: after a call
\* that compiled, every node the call added is the node of the overload that
\* matched or feeds it (its lists, tuple unpacks, conversions and defaults),
\* and a call that no overload matched added no node
C17_Transactional == [][Done.op = "Apply" => Committed]_vars

\* f(t, a) with t : (int), a : Tensor against f(sizes: int[], y: int): the
\* attempt without conversions has unpacked t and built the list before it
\* fails on a, and the attempt with conversions does so again
C17_Leftover ==
  /\ Len(body) = 1 /\ body[1].op = "Apply" /\ status = "ok"
  /\ Len(body[1].x) = 1 /\ body[1].x[1].id = 27 /\ body[1].lit = <<"t", "a">>
  /\ KindCount(nodes, "prim::TupleUnpack") = 2 /\ KindCount(nodes, "prim::ListConstruct") = 2
  /\ KindCount(nodes, "f") = 1
  /\ Newest(nodes).inputs[1] = nodes[4].outputs[1]
  /\ nodes[1].kind = "prim::TupleUnpack" /\ nodes[2].kind = "prim::ListConstruct"
  /\ \A n \in 1..Len(nodes) : nodes[2].outputs[1] \notin Range(nodes[n].inputs)

\* ------------------------------------------------------------ C18
\* the frames that bind the name, the innermost frame being the last
BindingFrames(x) == IF x \in Names THEN {i \in 1..Len(frames) : frames[i].value_table[x] # NoSV} ELSE {}
Innermost(S) == CHOOSE i \in S : \A j \in S : j <= i
\* the fixed table of the builtins, and what the resolver of the model knows
InFixedTable(x) == x = "print"
Resolved(x) == x \in {"g", "print"}
\* what a lookup of x yields: a binding, or NoSV where frames, table and resolver miss
Looked(x) ==
  IF BindingFrames(x) # {} THEN frames[Innermost(BindingFrames(x))].value_table[x]
  ELSE IF InFixedTable(x) THEN [k |-> "print", v |-> 0]
  ELSE IF Resolved(x) THEN [k |-> "python", v |-> 0]
  ELSE NoSV
\* the type-mismatch diagnostic on record for x at the root frame
RecordedAtRoot(x) == IF x \in Names THEN frames[1].error_messages[x] ELSE NoMsg
ReassignErrors == {"ReassignNotFirstClass", "ReassignType"}
\* the statement `x = y` looks y up and binds x to what it found
LooksUp(s) ==
  IF Looked(s.y) # NoSV
  THEN /\ status' \in {"ok"} \cup ReassignErrors
       /\ status' = "ok" => frames'[Len(frames')].value_table[s.x] = Looked(s.y)
  ELSE IF RecordedAtRoot(s.y) # NoMsg THEN status' = "DeferredTypeMismatch" /\ errmsg' = RecordedAtRoot(s.y)
  ELSE status' = "UndefinedValue" /\ errmsg' = <<s.y>>

EnclosingFrames(x) == {i \in 1..(Len(frames) - 1) : frames[i].value_table[x] # NoSV}
Parent(x) == IF EnclosingFrames(x) = {} THEN NoSV ELSE frames[Innermost(EnclosingFrames(x))].value_table[x]
\* the statement assigns: its right-hand side is a literal or is found
Assigns19(s) == s.op = "AssignConst" \/ (s.op = "AssignVar" /\ Looked(s.y) # NoSV)
\* the value assigned is a plain value, and its type
NewIsPlain(s) == s.op = "AssignConst" \/ Looked(s.y).k = "simple"
NewType(s) == IF s.op = "AssignConst" THEN (IF s.lit.fp THEN "float" ELSE "int") ELSE vtype[Looked(s.y).v]
\* the subtypes of the types of the model: a type itself, and int and float of number
Subtype(t1, t2) == t1 = t2 \/ (t1 \in {"int", "float"} /\ t2 = "number")
\* x is bound by the step in the innermost frame to the value assigned
BoundTo(s) ==
  LET new == frames'[Len(frames')].value_table[s.x]
  IN /\ status' = "ok"
     /\ IF s.op = "AssignVar" THEN new = Looked(s.y)
        ELSE new.k = "simple" /\ vtype'[new.v] = NewType(s)
Rebinds(s) ==
  /\ Len(frames') = Len(frames)
  \* no enclosing frame changes, and no other name of the innermost frame
  /\ \A i \in 1..(Len(frames) - 1) : frames'[i].value_table = frames[i].value_table
  /\ \A n \in Names \ {s.x} : frames'[Len(frames)].value_table[n] = frames[Len(frames)].value_table[n]
  /\ IF Parent(s.x) = NoSV THEN BoundTo(s)
     ELSE IF ~NewIsPlain(s) \/ Parent(s.x).k # "simple"
     THEN status' = "ReassignNotFirstClass" /\ frames'[Len(frames)].value_table[s.x] = frames[Len(frames)].value_table[s.x]
     ELSE IF ~Subtype(NewType(s), vtype[Parent(s.x).v])
     THEN status' = "ReassignType" /\ frames'[Len(frames)].value_table[s.x] = frames[Len(frames)].value_table[s.x]
     ELSE BoundTo(s)

Survivors == SelectSeq(BodyFrame.captured_inputs, LAMBDA x : asSimple(BodyFrame.value_table[x]) # OwnInput(x))
\* the value a surviving name is bound to at the end of the body, as the Block
\* output refers to it: the Block input of a name that does not survive is
\* deleted and its uses replaced by the value of that name around the loop
BodyEnd(x) ==
  LET v == asSimple(BodyFrame.value_table[x])
      InSeq(q, y) == \E j \in 1..Len(q) : q[j] = y
      gone == {y \in Names : InSeq(BodyFrame.captured_inputs, y) /\ ~InSeq(Survivors, y) /\ OwnInput(y) = v}
  IN IF gone = {} THEN v ELSE asSimple(Enclosing(CHOOSE y \in gone : TRUE))
LoopFormat ==
  LET n == Last(ctl).n
      B == BodyFrame.b
      k == Len(Survivors)
      outer == Len(frames')
  IN /\ \A i, j \in 1..k : i < j => NameRank(Survivors[i]) < NameRank(Survivors[j])
     /\ nodes'[n].kind = "prim::Loop" /\ nodes'[n].blocks = <<B>>
     \* the node: trip count, initial condition, the outer values; k outputs
     /\ Len(nodes[n].inputs) = 2
     /\ nodes'[n].inputs = nodes[n].inputs \o [i \in 1..k |-> asSimple(Enclosing(Survivors[i]))]
     /\ vtype'[nodes'[n].inputs[1]] = "int" /\ vtype'[nodes'[n].inputs[2]] = "bool"
     /\ Len(nodes'[n].outputs) = k
     \* the Block: the counter and an input per name; the condition and the
     \* value of each name at the end of the body
     /\ blocks'[B].inputs = <<blocks[B].inputs[1]>> \o [i \in 1..k |-> OwnInput(Survivors[i])]
     /\ vtype'[blocks'[B].inputs[1]] = "int"
     /\ Len(blocks'[B].outputs) = 1 + k /\ vtype'[blocks'[B].outputs[1]] = "bool"
     /\ \A i \in 1..k : blocks'[B].outputs[1 + i] = BodyEnd(Survivors[i])
     \* the names in the outer scope
     /\ \A i \in 1..k :
          /\ frames'[outer].value_table[Survivors[i]] = SimpleValue(nodes'[n].outputs[i])
          /\ vtype'[nodes'[n].outputs[i]] = vtype'[blocks'[B].inputs[1 + i]]
          /\ vtype'[nodes'[n].outputs[i]] = vtype[asSimple(Enclosing(Survivors[i]))]

\* C20: after emitLoopCommon with the surviving captured names n_1 < .. < n_k
\* the prim::Loop node has the 2 + k inputs trip count, initial condition and
\* the outer values of n_1 .. n_k from before the loop, and k outputs; its
\* Block has the 1 + k inputs iteration counter and one per name, and the
\* 1 + k outputs continue-condition and the values of n_1 .. n_k at the end
\* of the body; each n_i is bound in the outer scope to the i-th output of
\* the node, whose type is that of the Block input of n_i
C20_LoopFormat == [][(Done.op = "EndLoop" /\ status' = "ok") => LoopFormat]_vars

\* `while True: a = 0` on a : number: the output that a is bound to after the
\* loop is a number as the Block input, the value at the end of the body an int
C20_Witness ==
  /\ Len(body) = 3 /\ status = "ok" /\ ctl = <<>>
  /\ body[1].op = "While" /\ body[1].y = "True"
  /\ body[2].op = "AssignConst" /\ body[2].x = "a" /\ body[2].lit = IntLit(0)
  /\ body[3].op = "EndLoop"
  /\ Len(blocks[1].inputs) = 1 /\ vtype[blocks[1].inputs[1]] = "number"
  /\ \E n \in 1..Len(nodes) :
       /\ nodes[n].kind = "prim::Loop" /\ Len(nodes[n].inputs) = 3 /\ nodes[n].inputs[3] = blocks[1].inputs[1]
       /\ Len(nodes[n].outputs) = 1 /\ vtype[nodes[n].outputs[1]] = "number"
       /\ frames[1].value_table["a"] = SimpleValue(nodes[n].outputs[1])
       /\ Len(blocks[nodes[n].blocks[1]].inputs) = 2 /\ vtype[blocks[nodes[n].blocks[1]].inputs[2]] = "number"
       /\ Len(blocks[nodes[n].blocks[1]].outputs) = 2 /\ vtype[blocks[nodes[n].blocks[1]].outputs[2]] = "int"

\* ------------------------------------------------------------ C21
\* the value the right-hand side of the assignment is bound to, and the
\* sub-values it exposes when it is a tuple: the inputs of the
\* prim::TupleConstruct that made it, else the outputs of the new prim::TupleUnpack
RhsValue == asSimple(BoundBefore(Done.y))
RhsIsTuple == RhsValue # 0 /\ vtype[RhsValue] \in AllTupleTypes
SubValues ==
  IF producer(St, RhsValue) # 0 /\ nodes[producer(St, RhsValue)].kind = "prim::TupleConstruct" THEN nodes[producer(St, RhsValue)].inputs
  ELSE IF NewNodes # <<>> /\ NewNodes[1].kind = "prim::TupleUnpack" /\ NewNodes[1].inputs = <<RhsValue>> THEN NewNodes[1].outputs
  ELSE <<>>
\* the position of the starred target, 0 if there is none
StarAt(lhs) == IF num_starred(lhs) = 0 THEN 0 ELSE CHOOSE k \in 1..Len(lhs) : lhs[k].starred
\* the targets receive the sub-values from left to right, the starred one a
\* tuple of the m - n that the others leave
Distributed(lhs) ==
  LET m == Len(elements(vtype[RhsValue]))
      n == num_normal_assign(lhs)
      p == StarAt(lhs)
      now(x) == asSimple(frames'[Len(frames')].value_table[x])
  IN /\ Len(SubValues) = m
     /\ \A k \in 1..Len(lhs) :
          IF p = 0 \/ k < p THEN now(lhs[k].name) = SubValues[k]
          ELSE IF k > p THEN now(lhs[k].name) = SubValues[k + (m - n) - 1]
          ELSE /\ producer(StNext, now(lhs[k].name)) = Len(nodes')
               /\ nodes'[Len(nodes')].kind = "prim::TupleConstruct"
               /\ nodes'[Len(nodes')].inputs = SubSeq(SubValues, k, k + (m - n) - 1)
               /\ elements(vtype'[now(lhs[k].name)]) = [j \in 1..(m - n) |-> vtype'[SubValues[k + j - 1]]]
Unpacks(lhs) ==
  LET m == Len(elements(vtype[RhsValue]))
      n == num_normal_assign(lhs)
  IN /\ num_starred(lhs) = 0 => /\ status' = "ok" <=> m = n
                                /\ m < n => status' = "TooFewValues"
                                /\ m > n => status' = "TooManyValues"
     /\ (num_starred(lhs) = 1 /\ n > 0) => /\ status' = "ok" <=> m >= n
                                           /\ m < n => status' = "TooFewValues"
     /\ status' = "ok" => Distributed(lhs)

\* C21: a tuple-target assignment with n plain targets from a tuple of m
\* sub-values succeeds, without a starred target, iff m = n (too few values
\* for m < n, too many for m > n) and, with one starred target, iff m >= n;
\* the targets then receive the sub-values from left to right, each sub-value
\* once, the starred target a tuple of the m - n sub-values at its position.
\* With two starred targets, or a starred target alone, it fails whatever
\* the right-hand side is
C21_Unpack ==
  [][Done.op = "TupleAssign" =>
       /\ RhsIsTuple => Unpacks(Done.x)
       /\ (num_starred(Done.x) > 1 \/ (num_starred(Done.x) > 0 /\ num_normal_assign(Done.x) = 0)) => status' \in {"OnlyOneStarred", "StarredAlone"}]_vars

\* `a, *b, t = t` on t : (int, float, int): a and t are the first and the
\* third output of the unpack, b a tuple of the second
C21_Witness ==
  /\ body # <<>> /\ Last(body).op = "TupleAssign" /\ status = "ok"
  /\ Last(body).x = <<Target("a", FALSE), Target("b", TRUE), Target("t", FALSE)>> /\ Last(body).y = "t"
  /\ Len(nodes) = 2 /\ nodes[1].kind = "prim::TupleUnpack" /\ Len(nodes[1].outputs) = 3
  /\ nodes[2].kind = "prim::TupleConstruct" /\ nodes[2].inputs = <<nodes[1].outputs[2]>>
  /\ frames[1].value_table["a"] = SimpleValue(nodes[1].outputs[1])
  /\ frames[1].value_table["b"] = SimpleValue(nodes[2].outputs[1]) /\ vtype[nodes[2].outputs[1]] = "(float)"
  /\ frames[1].value_table["t"] = SimpleValue(nodes[1].outputs[3])

\* ------------------------------------------------------------ C22
\* the fork node of the step and the sub-graph it owns
ForkNode == nodes'[Len(nodes) + 1]
Subgraph == ForkNode.attr[1]
\* the call of the fork lowered in place, the nodes this creates and the
\* value of the call
Inline == emitApplyStmt(St, Done.x, None, Done.lit, Done.y)
InlineNew == SubSeq(Inline.nodes, Len(nodes) + 1, Len(Inline.nodes))
InlineResult == Last(InlineNew).outputs[1]
\* the values the body uses, in the order it uses them, and those among them
\* that exist outside the body, each at its first use
RECURSIVE Flatten(_)
Flatten(ss) == IF ss = <<>> THEN <<>> ELSE Head(ss) \o Flatten(Tail(ss))
Uses == Flatten([j \in 1..Len(InlineNew) |-> InlineNew[j].inputs]) \o <<InlineResult>>
RECURSIVE FirstSeen(_, _)
FirstSeen(s, seen) == IF s = <<>> THEN seen ELSE FirstSeen(Tail(s), IF Head(s) \in Range(seen) THEN seen ELSE Append(seen, Head(s)))
OuterReads == FirstSeen(SelectSeq(Uses, LAMBDA v : v <= Len(vtype)), <<>>)
\* what a value of the sub-graph stands for: the i-th input for the i-th input
\* of the node, the output of a node for that output of the node it is a copy of
StandsFor(x) ==
  IF x \in Range(Subgraph.inputs) THEN ForkNode.inputs[IndexOf(Subgraph.inputs, x)]
  ELSE LET j == CHOOSE j \in 1..Len(Subgraph.nodes) : x \in Range(Subgraph.nodes[j].outputs)
       IN InlineNew[j].outputs[IndexOf(Subgraph.nodes[j].outputs, x)]
Forked ==
  /\ ForkNode.kind = "prim::fork" /\ ForkNode.blocks = <<>>
  /\ \A i \in 1..Len(nodes') : nodes'[i].blocks = <<>>
  /\ Len(ForkNode.inputs) = Len(Subgraph.inputs)
  /\ \A i \in 1..Len(Subgraph.inputs) : Subgraph.vtype[Subgraph.inputs[i]] = vtype'[ForkNode.inputs[i]]
  /\ Len(Subgraph.nodes) = Len(InlineNew)
  /\ \A j \in 1..Len(InlineNew) :
       /\ Subgraph.nodes[j].kind = InlineNew[j].kind
       /\ Len(Subgraph.nodes[j].inputs) = Len(InlineNew[j].inputs)
       /\ \A p \in 1..Len(InlineNew[j].inputs) : StandsFor(Subgraph.nodes[j].inputs[p]) = InlineNew[j].inputs[p]
  /\ Len(Subgraph.outputs) = 1 /\ StandsFor(Subgraph.outputs[1]) = InlineResult
  /\ ForkNode.inputs = OuterReads
  /\ \A i, j \in 1..Len(ForkNode.inputs) : i # j => ForkNode.inputs[i] # ForkNode.inputs[j]
  /\ Len(ForkNode.outputs) = 1
  /\ vtype'[ForkNode.outputs[1]] = FutureType(Subgraph.vtype[Subgraph.outputs[1]])
  /\ Subgraph.vtype[Subgraph.outputs[1]] = Inline.vtype[InlineResult]

\* C22: after emitForkExpr the fork node has no Block and owns a sub-graph
\* with as many inputs as the node; the i-th input of the sub-graph stands for
\* the i-th input of the node; every value from outside that the body reads
\* is an input of the node exactly once, in the order of its first use; the
\* one output of the node is a future of the type of the result of the body
C22_Fork == [][(Done.op = "Fork" /\ status' = "ok") => Forked]_vars

\* fork(f, b, a) for f(x: T1, y: T1): the inputs of the fork node are b, a,
\* not in alphabetical order
C22_Witness ==
  /\ body # <<>> /\ Last(body).op = "Fork" /\ status = "ok"
  /\ Last(body).lit = <<"b", "a">>
  /\ Len(nodes) = 2 /\ nodes[1].kind = "prim::fork" /\ nodes[1].blocks = <<>>
  /\ nodes[1].inputs = <<asSimple(frames[1].value_table["b"]), asSimple(frames[1].value_table["a"])>>
  /\ Len(nodes[1].attr[1].inputs) = 2 /\ Len(nodes[1].attr[1].nodes) = 1
  /\ nodes[1].attr[1].nodes[1].inputs = nodes[1].attr[1].inputs
  /\ vtype[nodes[1].outputs[1]] = "Future(int)"

\* ------------------------------------------------------------ C23
\* the constant table of the literal lit, before and after the step
TableOf(lit) == IF lit.fp THEN fp_constants[lit.val] ELSE integral_constants[lit.val]
TableAfter(lit) == IF lit.fp THEN fp_constants'[lit.val] ELSE integral_constants'[lit.val]
\* `x = literal`: a literal seen before is the Value of its first occurrence;
\* a new one is a constant node put in front of the root Block
Lowered(x, lit) ==
  IF TableOf(lit) # 0 THEN nodes' = nodes /\ After(x) = SimpleValue(TableOf(lit))
  ELSE /\ Len(nodes') = Len(nodes) + 1
       /\ Newest(nodes').kind = "prim::Constant" /\ Newest(nodes').attr = <<lit.val>>
       /\ vtype'[Newest(nodes').outputs[1]] = (IF lit.fp THEN "float" ELSE "int")
       /\ blocks'[1].nodes[1] = Len(nodes')
       /\ TableAfter(lit) = Newest(nodes').outputs[1]
       /\ After(x) = SimpleValue(Newest(nodes').outputs[1])
\* no two constant nodes for one integer or one floating-point value, and
\* every one of them is a node of the root Block
InternedOnce ==
  LET consts == {i \in 1..Len(nodes) : nodes[i].kind = "prim::Constant" /\ vtype[nodes[i].outputs[1]] \in {"int", "float"}}
  IN /\ \A i, j \in consts : (nodes[i].attr = nodes[j].attr /\ vtype[nodes[i].outputs[1]] = vtype[nodes[j].outputs[1]]) => i = j
     /\ \A i \in consts : i \in Range(blocks[1].nodes)

\* C23: a literal that emitConst lowers a second time is the Value of its
\* first occurrence, so there is at most one constant node per integer and
\* per floating-point value; a new constant goes to the front of the root
\* Block of the Graph, also when the literal occurs in a loop body
C23_Interned == [][((Done.op = "AssignConst" /\ status' = "ok") => Lowered(Done.x, Done.lit)) /\ InternedOnce']_vars

\* `while True: a = 0` and then `a = 0`: one constant 0, in the root Block
\* ahead of the loop, used inside and after the loop
C23_Witness ==
  /\ Len(body) = 4 /\ status = "ok" /\ ctl = <<>>
  /\ body[1].op = "While" /\ body[2].op = "AssignConst" /\ body[2].lit = IntLit(0) /\ body[3].op = "EndLoop"
  /\ body[4].op = "AssignConst" /\ body[4].lit = IntLit(0)
  /\ integral_constants[0] # 0
  /\ frames[1].value_table["a"] = SimpleValue(integral_constants[0])
  /\ blocks[1].nodes[1] = producer(St, integral_constants[0])
  /\ \E n \in 1..Len(nodes) : nodes[n].kind = "prim::Loop" /\ Len(blocks[nodes[n].blocks[1]].outputs) = 2 /\ blocks[nodes[n].blocks[1]].outputs[2] = integral_constants[0]

\* ------------------------------------------------------------ C24
\* C24: when deleteExtraInputs runs at the end of a loop body, whatever the
\* body is (nested if/else, nested loops, unrolled for loops over a tuple),
\* the body Block has as many inputs as outputs and one more than the body
\* frame has captured inputs: the two assertions at its start hold
C24_AssertionsHold == [][Done.op = "EndLoop" => status' # "JIT_ASSERT"]_vars

\* `while b < 3: for b in t: <nothing>` on b : int, t : (int): the frame of
\* the unrolled loop shares the Block of the while body and has added an
\* input of its own for b, which the body frame does not know of
C24_AssertFails ==
  /\ Len(body) = 3 /\ status = "JIT_ASSERT"
  /\ body[1].op = "While" /\ body[1].y = "b"
  /\ body[2].op = "ForIn" /\ body[2].x = "b" /\ body[2].y = <<>>
  /\ body[3].op = "EndLoop"
  /\ Len(blocks[2].inputs) = 4 /\ Len(blocks[2].outputs) = 3

\* ------------------------------------------------------------ C25
\* the Block of frame i is owned by a Loop node
LoopOwned(c, i) == getBlockOwningKind(c, i) = "prim::Loop"
\* every frame: its captured names ascend strictly, only the frame of a loop
\* body has any, each is bound in the frame to a plain value and has its
\* Block input behind the trip counter
SortedCaptures ==
  \A i \in 1..Len(frames) :
    LET cap == frames[i].captured_inputs
    IN /\ \A j, k \in 1..Len(cap) : j < k => NameRank(cap[j]) < NameRank(cap[k])
       /\ cap # <<>> => LoopOwned(St, i)
       /\ LoopOwned(St, i) => Len(blocks[frames[i].b].inputs) = 1 + Len(cap)
       /\ \A j \in 1..Len(cap) : asSimple(frames[i].value_table[cap[j]]) # 0
\* the names frame i has captured in the step: the frame did not bind them,
\* a frame below bound them to a plain value, and the new Block input of each
\* stands at 1 + the number of captured names that sort before it; the name
\* is bound to it in the frame unless the statement assigns the name
CapturedAsNeeded ==
  \A i \in 1..Len(frames) :
    (i <= Len(frames') /\ frames'[i].b = frames[i].b) =>
      LET cap == frames'[i].captured_inputs
          b == frames[i].b
      IN /\ SelectSeq(cap, LAMBDA x : x \in Range(frames[i].captured_inputs)) = frames[i].captured_inputs
         /\ SelectSeq(blocks'[b].inputs, LAMBDA v : v <= Len(vtype)) = blocks[b].inputs
         /\ \A k \in 1..Len(cap) :
              cap[k] \notin Range(frames[i].captured_inputs) =>
                /\ LoopOwned(St, i)
                /\ frames[i].value_table[cap[k]] = NoSV
                /\ asSimple(findInAnyFrame(St, i - 1, cap[k])) # 0
                /\ k = 1 + Cardinality({y \in Range(cap) : NameRank(y) < NameRank(cap[k])})
                /\ blocks'[b].inputs[1 + k] > Len(vtype)
                /\ vtype'[blocks'[b].inputs[1 + k]] = vtype[asSimple(findInAnyFrame(St, i - 1, cap[k]))]
                /\ (Done.op = "ExprStmt" \/ Done.x # cap[k]) => frames'[i].value_table[cap[k]] = SimpleValue(blocks'[b].inputs[1 + k])

\* C25: createCapturedInputIfNeeded creates a captured input in a frame only
\* if the Block of the frame is owned by a Loop node, the frame does not bind
\* the name and a frame below binds it to a plain value; the new Block input
\* stands at position 1 + the number of captured names that sort before the
\* name, and the name is bound to it in the frame.  So the captured-input
\* list of every frame is strictly ascending at every moment
C25_Captured == [][(status' = "ok" /\ Done.op # "EndLoop" => CapturedAsNeeded) /\ (status' = "ok" => SortedCaptures')]_vars

\* `while True: b; a`: the body frame captures b first and a second, and the
\* input of a, the younger value, stands in front of the input of b
C25_Witness ==
  /\ Len(body) = 3 /\ status = "ok" /\ Len(frames) = 2
  /\ body[1].op = "While" /\ body[1].y = "True"
  /\ body[2].op = "ExprStmt" /\ body[2].y = "b"
  /\ body[3].op = "ExprStmt" /\ body[3].y = "a"
  /\ frames[2].captured_inputs = <<"a", "b">>
  /\ Len(blocks[2].inputs) = 3 /\ blocks[2].inputs[2] > blocks[2].inputs[3]
  /\ frames[2].value_table["a"] = SimpleValue(blocks[2].inputs[2])
  /\ frames[2].value_table["b"] = SimpleValue(blocks[2].inputs[3])

\* ------------------------------------------------------------ C26
\* the compilation and the body frame when deleteExtraInputs is called at the
\* end of the loop body of the step, and when it returns
AtDelete == emitLoopBodyOutputs(St)
Deleted == deleteExtraInputs(AtDelete.c, AtDelete.frame)
\* the slots (captured names by position) whose Block input is the Block output
SameSlots == {i \in 1..Len(AtDelete.frame.captured_inputs) : AtDelete.c.blocks[AtDelete.frame.b].inputs[i + 1] = AtDelete.c.blocks[AtDelete.frame.b].outputs[i + 1]}
KeptSlots == SelectSeq([i \in 1..Len(AtDelete.frame.captured_inputs) |-> i], LAMBDA i : i \notin SameSlots)
\* a value as deleteExtraInputs leaves it: the input of a removed slot has
\* become the binding of its name in the enclosing scope
Renamed(v) ==
  IF \E i \in SameSlots : AtDelete.c.blocks[AtDelete.frame.b].inputs[i + 1] = v
  THEN asSimple(findInAnyFrame(AtDelete.c, top(AtDelete.c), AtDelete.frame.captured_inputs[CHOOSE i \in SameSlots : AtDelete.c.blocks[AtDelete.frame.b].inputs[i + 1] = v]))
  ELSE v
RemovedExactly ==
  LET B == AtDelete.frame.b
      before == AtDelete.c
      after == Deleted.c
      removed == {before.blocks[B].inputs[i + 1] : i \in SameSlots}
  IN /\ Deleted.frame.captured_inputs = [k \in 1..Len(KeptSlots) |-> AtDelete.frame.captured_inputs[KeptSlots[k]]]
     /\ after.blocks[B].inputs = <<before.blocks[B].inputs[1]>> \o [k \in 1..Len(KeptSlots) |-> before.blocks[B].inputs[KeptSlots[k] + 1]]
     /\ after.blocks[B].outputs = <<before.blocks[B].outputs[1]>> \o [k \in 1..Len(KeptSlots) |-> Renamed(before.blocks[B].outputs[KeptSlots[k] + 1])]
     /\ Len(after.blocks[B].inputs) = Len(after.blocks[B].outputs)
     /\ Len(after.blocks[B].inputs) = Len(Deleted.frame.captured_inputs) + 1
     /\ \A k \in 1..Len(Deleted.frame.captured_inputs) : after.blocks[B].outputs[k + 1] # after.blocks[B].inputs[k + 1]
     /\ \A k \in 1..Len(Deleted.frame.captured_inputs) - 1 : NameRank(Deleted.frame.captured_inputs[k]) < NameRank(Deleted.frame.captured_inputs[k + 1])
     /\ Len(after.nodes) = Len(before.nodes)
     /\ \A n \in 1..Len(after.nodes) :
          /\ Range(after.nodes[n].inputs) \cap removed = {}
          /\ after.nodes[n].inputs = [p \in 1..Len(before.nodes[n].inputs) |-> Renamed(before.nodes[n].inputs[p])]
     /\ \A b \in 1..Len(after.blocks) :
          /\ Range(after.blocks[b].outputs) \cap removed = {}
          /\ b # B => after.blocks[b].outputs = [p \in 1..Len(before.blocks[b].outputs) |-> Renamed(before.blocks[b].outputs[p])]
     /\ blocks'[B] = after.blocks[B]

\* C26: deleteExtraInputs removes exactly the captured slots whose Block
\* input is also their Block output: the names left keep their order and have
\* an output that is not their input, the Block has as many inputs as outputs
\* and one more than names are left, and no node and no Block output uses a
\* removed input, whose uses refer to the binding of the name in the
\* enclosing scope instead
C26_Removed == [][(Done.op = "EndLoop" /\ status' = "ok") => RemovedExactly]_vars

\* `while True: b = a`: the slot of a is removed, the slot of b is kept and
\* its Block output, the input of a until then, is the a of the enclosing scope
C26_Witness ==
  /\ Len(body) = 3 /\ status = "ok" /\ ctl = <<>>
  /\ body[1].op = "While" /\ body[1].y = "True"
  /\ body[2].op = "AssignVar" /\ body[2].x = "b" /\ body[2].y = "a"
  /\ body[3].op = "EndLoop"
  /\ Len(blocks[2].inputs) = 2 /\ Len(blocks[2].outputs) = 2
  /\ blocks[2].outputs[2] = blocks[1].inputs[1]
  /\ \E n \in 1..Len(nodes) : nodes[n].kind = "prim::Loop" /\ Len(nodes[n].inputs) = 3 /\ nodes[n].inputs[3] = blocks[1].inputs[2]

\* ------------------------------------------------------------ C27
\* C27: a candidate that has no parameter named self does not match a call
\* that supplies a receiver, as the receiver would stay unbound: with this
\* candidate the only overload the call does not compile
C27_UnusedSelf == [][(OneSchema /\ CallSelf # None /\ ~HasParameter("self")) => status' # "ok"]_vars

\* a.f(b) on b : int against f(x: int, *, k: int) with k = a, a : int: the
\* call compiles to a node f(b, a) and the receiver a is bound to no parameter
C27_Matched ==
  /\ Len(body) = 1 /\ body[1].op = "Apply" /\ status = "ok"
  /\ Len(body[1].x) = 1 /\ body[1].x[1].id = 22
  /\ body[1].y.self = Some("a") /\ body[1].lit = <<"b">> /\ body[1].y.kwargs = <<NamedValue("k", "a")>>
  /\ Len(nodes) = 1 /\ nodes[1].kind = "f"
  /\ nodes[1].inputs = <<asSimple(frames[1].value_table["b"]), asSimple(frames[1].value_table["a"])>>

\* ------------------------------------------------------------ C28
\* every prim::If node has two Blocks with as many outputs each as the node,
\* and at every position the types of the two Block outputs unify to the type
\* of the output of the node
CondNodes ==
  \A n \in 1..Len(nodes) :
    nodes[n].kind = "prim::If" =>
      /\ Len(nodes[n].blocks) = 2
      /\ Len(blocks[nodes[n].blocks[1]].outputs) = Len(nodes[n].outputs)
      /\ Len(blocks[nodes[n].blocks[2]].outputs) = Len(nodes[n].outputs)
      /\ \A i \in 1..Len(nodes[n].outputs) :
           unifyTypes(vtype[blocks[nodes[n].blocks[1]].outputs[i]], vtype[blocks[nodes[n].blocks[2]].outputs[i]]) = vtype[nodes[n].outputs[i]]
\* the if statement that the step ends: the type a name has at the end of a
\* branch, the names both branches define, and those among them that unify
TypeAtEnd(frame, x) == vtype[asSimple(findInAnyFrame([popFrame(St) EXCEPT !.frames = Append(@, frame)], Len(frames), x))]
Mutated == Range(mutated_variables(popFrame(St), Last(ctl).saved[1], Last(frames), Only(NameOrders)))
Unifying == {x \in Mutated : unifyTypes(TypeAtEnd(Last(ctl).saved[1], x), TypeAtEnd(Last(frames), x)) # ""}
OutputPerUnified ==
  LET n == Last(ctl).n
  IN /\ Len(nodes'[n].outputs) = Cardinality(Unifying)
     /\ Len(blocks'[nodes'[n].blocks[1]].outputs) = Cardinality(Unifying)
     /\ Len(blocks'[nodes'[n].blocks[2]].outputs) = Cardinality(Unifying)
     /\ \A x \in Mutated \ Unifying : asSimple(After(x)) \notin Range(nodes'[n].outputs)

\* C28: every Conditional Node of a compiled body (if statement, and / or,
\* ternary expression, assert) has two Blocks with as many outputs each as
\* the node, the types of the two Block outputs at a position unify to the
\* type of the output of the node there, and a name whose branch types do
\* not unify has an output in neither Block nor at the node
C28_CondNodes == [][(status' = "ok" => CondNodes') /\ ((Done.op = "EndIf" /\ Last(ctl).h = "if" /\ status' = "ok") => OutputPerUnified)]_vars

\* `if True: a = 0; b = 0 else: a = 1.5` on b : int: the node has the one
\* output for b, a has none
C28_Witness ==
  /\ Len(body) = 6 /\ status = "ok" /\ ctl = <<>>
  /\ body[1].op = "If" /\ body[2].op = "AssignConst" /\ body[2].x = "a" /\ body[2].lit = IntLit(0)
  /\ body[3].op = "AssignConst" /\ body[3].x = "b" /\ body[3].lit = IntLit(0)
  /\ body[4].op = "Else" /\ body[5].op = "AssignConst" /\ body[5].x = "a" /\ body[5].lit = FpLit(15)
  /\ body[6].op = "EndIf"
  /\ frames[1].value_table["a"] = NoSV
  /\ \E n \in 1..Len(nodes) :
       /\ nodes[n].kind = "prim::If" /\ Len(nodes[n].outputs) = 1
       /\ frames[1].value_table["b"] = SimpleValue(nodes[n].outputs[1])
       /\ Len(blocks[nodes[n].blocks[1]].outputs) = 1 /\ Len(blocks[nodes[n].blocks[2]].outputs) = 1

\* ------------------------------------------------------------ C29
\* the statements of the body so far: the opener of the innermost loop that
\* is open at position i, and the number of loops open around position j
RECURSIVE OpenerFrom(_, _, _)
OpenerFrom(q, i, d) ==
  IF i = 0 THEN 0
  ELSE IF q[i].op = "EndLoop" THEN OpenerFrom(q, i - 1, d + 1)
  ELSE IF q[i].op \in {"While", "ForRange"} THEN (IF d = 0 THEN i ELSE OpenerFrom(q, i - 1, d - 1))
  ELSE OpenerFrom(q, i - 1, d)
DepthAt(j) == Cardinality({m \in 1..(j - 1) : body[m].op \in {"While", "ForRange"}}) - Cardinality({m \in 1..(j - 1) : body[m].op = "EndLoop"})
\* the loop that the step ends, and the loop around it
LoopStart == OpenerFrom(body, Len(body), 0)
OuterStart == OpenerFrom(body, LoopStart - 1, 0)
\* statement k belongs to the loop opened at j (the target of a for loop is
\* assigned by the opener)
Inside(j, k) == k >= j /\ \A m \in (j + 1)..k : DepthAt(m) > DepthAt(j)
AssignsName(s, x) == s.x = x /\ s.op \in {"AssignConst", "AssignVar", "AssignAdd", "ForRange"}
AssignedFrom(j, x) == \E k \in j..Len(body) : Inside(j, k) /\ AssignsName(body[k], x)
\* the loops that are statements of the body of the loop that the step ends
NestedLoops == {j \in (LoopStart + 1)..Len(body) : body[j].op \in {"While", "ForRange"} /\ DepthAt(j) = DepthAt(LoopStart) + 1}
AssignedInNested(x) == \E j \in NestedLoops : AssignedFrom(j, x)
IsInner == Len(ctl) >= 2 /\ ctl[Len(ctl) - 1].h = "loop"
IsOuter == NestedLoops # {}
\* what the scope around the loop binds x to, itself
Around(x) == frames[Len(frames) - 1].value_table[x]
EndValue(x) == asSimple(BodyFrame.value_table[x])
\* x is a loop-carried dependency of the Loop node of the step: an input of
\* the node is the value of x around the loop, the Block has an input for x
\* and as output the value of x at the end of the body, and x is bound
\* after the loop to the output of the node
CarriedByLoop(x) ==
  LET n == Last(ctl).n
      B == BodyFrame.b
  IN \E i \in 1..Len(nodes'[n].outputs) :
       /\ Len(nodes'[n].inputs) = 2 + Len(nodes'[n].outputs)
       /\ Len(blocks'[B].inputs) = 1 + Len(nodes'[n].outputs)
       /\ Len(blocks'[B].outputs) = 1 + Len(nodes'[n].outputs)
       /\ Around(x) = SimpleValue(nodes'[n].inputs[2 + i])
       /\ blocks'[B].inputs[1 + i] = OwnInput(x)
       /\ blocks'[B].outputs[1 + i] = BodyEnd(x)
       /\ frames'[Len(frames')].value_table[x] = SimpleValue(nodes'[n].outputs[i])
\* x is no loop-carried dependency of the Loop node of the step: its Block
\* input is gone, every use of it has become the value of x around the loop,
\* and x is bound after the loop as before it
ReadThrough(x) ==
  /\ OwnInput(x) \notin Range(blocks'[BodyFrame.b].inputs)
  /\ frames'[Len(frames')].value_table[x] = Around(x)
  /\ \A n \in 1..Len(nodes) : \A p \in 1..Len(nodes[n].inputs) : nodes[n].inputs[p] = OwnInput(x) => nodes'[n].inputs[p] = asSimple(Around(x))
  /\ \A n \in 1..Len(nodes') : OwnInput(x) \notin Range(nodes'[n].inputs)
  /\ \A b \in 1..Len(blocks') : OwnInput(x) \notin Range(blocks'[b].outputs)
  /\ \A b \in 1..Len(blocks) : \A p \in 1..Len(blocks[b].outputs) : blocks[b].outputs[p] = OwnInput(x) => \E q \in 1..Len(blocks'[b].outputs) : blocks'[b].outputs[q] = asSimple(Around(x))
\* x is read in the body that the step ends and not assigned there
OnlyRead(x) == x \in Range(BodyFrame.captured_inputs) /\ ~AssignedFrom(LoopStart, x)
\* the value x has around the inner loop is the Block input of the outer body
OuterInput(x) ==
  LET f == frames[Len(frames) - 1]
  IN x \in Range(f.captured_inputs) /\ Around(x) = SimpleValue(blocks[f.b].inputs[1 + IndexOf(f.captured_inputs, x)])
ReadOnlyNested ==
  /\ IsInner => \A x \in Names :
       (asSimple(findInAnyFrame(St, Len(frames) - 2, x)) # 0 /\ OnlyRead(x)) =>
         /\ ReadThrough(x)
         /\ ~AssignedFrom(OuterStart, x) => OuterInput(x)
  /\ IsOuter => \A x \in Names :
       (asSimple(Enclosing(x)) # 0 /\ OnlyRead(x)) => (ReadThrough(x) /\ Around(x) = Enclosing(x))
\* the statement as it stands: assigned in the inner body
AssignedCarried ==
  /\ IsInner => \A x \in Names : (asSimple(findInAnyFrame(St, Len(frames) - 2, x)) # 0 /\ AssignedFrom(LoopStart, x)) => CarriedByLoop(x)
  /\ IsOuter => \A x \in Names : (asSimple(Enclosing(x)) # 0 /\ AssignedInNested(x)) => CarriedByLoop(x)
\* assigned in the inner body, and bound at the end of the body to another
\* value than at its head
ChangedCarried ==
  /\ IsInner => \A x \in Names : (asSimple(findInAnyFrame(St, Len(frames) - 2, x)) # 0 /\ AssignedFrom(LoopStart, x) /\ EndValue(x) # OwnInput(x)) => CarriedByLoop(x)
  /\ IsOuter => \A x \in Names : (asSimple(Enclosing(x)) # 0 /\ AssignedInNested(x) /\ EndValue(x) # OwnInput(x)) => CarriedByLoop(x)

\* C29 as stated: for a loop that is a statement of the body of another loop
\* and a name bound to a plain value before the outer loop, a name assigned
\* in the inner body is a loop-carried dependency of the inner and of the
\* outer Loop node; a name only read in the inner body and not assigned in
\* the outer body is a loop-carried dependency of neither, and its uses in
\* both bodies refer to its value before the loops
C29_Nested == [][(Done.op = "EndLoop" /\ status' = "ok") => (AssignedCarried /\ ReadOnlyNested)]_vars

\* C29 amended: the name assigned in the inner body is a loop-carried
\* dependency of a Loop node when the body of that node ends with the name
\* bound to another value than at its head
C29_NestedChanged == [][(Done.op = "EndLoop" /\ status' = "ok") => (ChangedCarried /\ ReadOnlyNested)]_vars

\* `while True: while True: a = b`: a is carried by both nodes, b by neither,
\* and the value that a has at the end of the inner body is the parameter b
C29_Witness ==
  /\ Len(body) = 5 /\ status = "ok" /\ ctl = <<>>
  /\ body[1].op = "While" /\ body[1].y = "True" /\ body[2].op = "While" /\ body[2].y = "True"
  /\ body[3].op = "AssignVar" /\ body[3].x = "a" /\ body[3].y = "b"
  /\ body[4].op = "EndLoop" /\ body[5].op = "EndLoop"
  /\ frames[1].value_table["b"] = SimpleValue(blocks[1].inputs[2])
  /\ \E n, m \in 1..Len(nodes) :
       /\ nodes[n].kind = "prim::Loop" /\ nodes[m].kind = "prim::Loop" /\ n # m
       /\ Len(nodes[n].inputs) = 3 /\ nodes[n].inputs[3] = blocks[1].inputs[1]
       /\ frames[1].value_table["a"] = SimpleValue(nodes[n].outputs[1])
       /\ Len(blocks[nodes[n].blocks[1]].inputs) = 2
       /\ Len(nodes[m].inputs) = 3 /\ nodes[m].inputs[3] = blocks[nodes[n].blocks[1]].inputs[2]
       /\ blocks[nodes[n].blocks[1]].outputs[2] = nodes[m].outputs[1]
       /\ blocks[nodes[m].blocks[1]].outputs[2] = blocks[1].inputs[2]

\* `while True: while True: a = a`: a is assigned in the inner body and the
\* inner Loop node carries nothing
C29_SelfAssigned ==
  /\ Len(body) = 4 /\ status = "ok" /\ Len(ctl) = 1
  /\ body[1].op = "While" /\ body[2].op = "While"
  /\ body[3].op = "AssignVar" /\ body[3].x = "a" /\ body[3].y = "a"
  /\ body[4].op = "EndLoop"
  /\ \E m \in 1..Len(nodes) : nodes[m].kind = "prim::Loop" /\ m # Last(ctl).n /\ Len(nodes[m].inputs) = 2 /\ nodes[m].outputs = <<>>

\* ------------------------------------------------------------ C30
\* C30: for every tuple length and every pair of integer constants as slice
\* bounds, the tuple slice that emitTupleSlice emits has begin <= end
C30_Ordered == [][(Done.op = "TupleSlice" /\ status' = "ok") => Newest(nodes').attr[1] <= Newest(nodes').attr[2]]_vars

\* t[2:1] on a triple is emitted as the slice from 2 to 1
C30_Reversed ==
  /\ body # <<>> /\ Last(body).op = "TupleSlice" /\ status = "ok"
  /\ Last(body).y = [k |-> "lit", v |-> 2] /\ Last(body).lit = Some([k |-> "lit", v |-> 1]) /\ TupleLen = 3
  /\ Newest(nodes).kind = "prim::TupleSlice" /\ Newest(nodes).attr = <<2, 1>>
====
